---- MODULE Spec2Model ----
(***************************************************************************)
(* The offline layer of the to-do app: the IndexedDB outbox, the writers   *)
(* that queue records, and the flush that posts the outbox to /api/sync.   *)
(*                                                                         *)
(* Two generations of the layer are in the repository and both are         *)
(* modelled; `variant` says which one the service worker has imported:     *)
(*   "v7"  src/新しいフォルダー/offline.js (DB_VERSION 7, four stores,     *)
(*         triggerManualSync + sendQueueToServer) with                     *)
(*         src/新しいフォルダー/sw.js ('sync' and 'message' listeners);    *)
(*   "v1"  src/static/offline.js (DB_VERSION 1, two stores,                *)
(*         sendQueueToServer) with src/sw.js ('sync' listener only).       *)
(*                                                                         *)
(* Every await of the code is a suspension point, hence one action per     *)
(* awaited operation.  A fetch and its response are one action: nothing    *)
(* the flush does lies between them.                                       *)
(*                                                                         *)
(* The specifications share the variables:                                 *)
(*   Spec       the flushes of the service worker against the writers;     *)
(*   SpecLive   the same with every enabled step eventually taken;         *)
(*   SpecRestart  the same with termination of the worker during a flush;  *)
(*   SpecFlush  one flush over every stored outbox;                        *)
(*   SpecPage   the page: openDB, the writers step by step, the sync       *)
(*              registration, and the move from DB_VERSION 1 to 7;         *)
(*   SpecProxy  the install, activate and fetch listeners of src/sw.js,    *)
(*              src/新しいフォルダー/sw.js and src/unnamed/part_005.       *)
(*   SpecSave   the save handlers of static/js/edit_task.js and            *)
(*              static/js/manage_templates.js over the writers;            *)
(*   SpecSaveLive  the same with the reactions of a settled promise run.   *)
(***************************************************************************)
EXTENDS Integers, Sequences, FiniteSets, TLC

\* ------------------------------------------------------------- bounds
MaxFlushes == 2      \* flushes started in one run
MaxWrites  == 2      \* records queued by the writers in one run
MaxStored  == 2      \* records a collection holds when the worker is started
MaxCalls   == 2      \* writer calls made by the pages in one run
MaxFetches == 2      \* fetch events the cache proxy handles in one run

\* ---------------------------------------------------------- constants
NEW_TASK_STORE       == "new_tasks_outbox"
SCRATCHPAD_STORE     == "scratchpad_outbox"
NEW_TEMPLATE_STORE   == "new_templates_outbox"
COMPLETED_TASK_STORE == "completed_tasks_outbox"

Stores == {NEW_TASK_STORE, SCRATCHPAD_STORE, NEW_TEMPLATE_STORE, COMPLETED_TASK_STORE}

\* The order in which triggerManualSync reads, and later clears, the stores.
StoreOrder == <<NEW_TASK_STORE, SCRATCHPAD_STORE, NEW_TEMPLATE_STORE, COMPLETED_TASK_STORE>>

\* A clear sequence that leaves out the completion store.
ClearOrderWithoutCompleted == <<NEW_TASK_STORE, SCRATCHPAD_STORE, NEW_TEMPLATE_STORE>>

\* The order of the clearStore calls of triggerManualSync.
ClearOrder == <<NEW_TASK_STORE, SCRATCHPAD_STORE, NEW_TEMPLATE_STORE, COMPLETED_TASK_STORE>>

\* The stores of src/static/offline.js, in the order sendQueueToServer reads them.
StoreOrderV1 == <<NEW_TASK_STORE, SCRATCHPAD_STORE>>

\* The stores sendQueueToServer of src/static/offline.js clears after a 2xx.
ClearedV1 == {NEW_TASK_STORE, SCRATCHPAD_STORE}

\* DB_VERSION of src/新しいフォルダー/offline.js and of src/static/offline.js.
DB_VERSION    == 7
DB_VERSION_V1 == 1

\* The version a deployed offline.js opens the database with, and the object
\* stores its onupgradeneeded handler asks for.
VersionOf(v) == IF v = "v7" THEN DB_VERSION ELSE DB_VERSION_V1
ObjectStoresOf(v) == IF v = "v7" THEN Stores ELSE ClearedV1

FlushIds == 1..MaxFlushes
WriterIds == 1..MaxCalls

\* The window clients of the origin that are open, and those of them that the
\* worker controls: "c2" is a window it does not control (a force-reloaded
\* page, or one outside its scope).
Clients == {"c1", "c2"}
Controlled == {"c1"}

\* What a writer can queue: a task list for the scratchpad, an opaque payload
\* for the other kinds.
TaskLists == {<<>>, <<"A", "B">>, <<"C">>}
PayloadsOf(s) == IF s = SCRATCHPAD_STORE THEN TaskLists ELSE {"t"}

VARIABLES
    variant,     \* "v7" | "v1": the offline.js / sw.js pair that is deployed
    db,          \* the memoized handle `let db` of the worker context (TRUE = set)
    store,       \* store[s]: the records of object store s, in key order
    keyGen,      \* keyGen[s]: the autoIncrement key generator of store s
    flush,       \* flush[f]: the f-th invocation of sendQueueToServer
    requests,    \* requests[f]: the POSTs to /api/sync of flush f, with the answers
    posted,      \* posted[c][f]: SYNC_COMPLETED messages flush f posted to client c
    support,     \* what the page's platform has: a subset of {"serviceWorker", "SyncManager"}
    schema,      \* the database on disk: its version (0 = none) and its object stores
    pageDb,      \* the memoized handle `let db` of the page context (TRUE = set)
    writer,      \* writer[w]: the w-th call of an outbox writer by the page
    sw,          \* the service-worker script that is being deployed
    lifecycle,   \* its install and activate events: phase, cache.add calls, keys to examine
    caches,      \* caches[n][u]: the response stored for URL u in the cache named n
    fetchEvent   \* fetchEvent[e]: the e-th fetch event the worker handles

pageVars == <<support, schema, pageDb, writer>>
proxyVars == <<sw, lifecycle, caches, fetchEvent>>
vars == <<variant, db, store, keyGen, flush, requests, posted, pageVars, proxyVars>>

\* ------------------------------------------------------ pure functions

\* A record stored without a generated key.
NewRecordWithoutKey(s, id, d) ==
    IF s = SCRATCHPAD_STORE THEN [id |-> 0, tasks |-> d] ELSE [id |-> 0, data |-> d]

\* What add() stores: the payload with the generated key under keyPath 'id'.
\* (The timestamp fields of the scratchpad and completion records are left out.)
NewRecord(s, id, d) ==
    IF s = SCRATCHPAD_STORE THEN [id |-> id, tasks |-> d] ELSE [id |-> id, data |-> d]

\* A flattening that puts the later batches first.
RECURSIVE flatMapReversed(_)
flatMapReversed(items) ==
    IF items = <<>> THEN <<>> ELSE flatMapReversed(Tail(items)) \o Head(items).tasks

\* scratchpadItems.flatMap(item => item.tasks)
RECURSIVE flatMap(_)
flatMap(items) ==
    IF items = <<>> THEN <<>> ELSE Head(items).tasks \o flatMap(Tail(items))

\* The short-circuit test with its comparisons negated.
NothingToSyncInverted(reads) ==
    /\ reads[NEW_TASK_STORE] # <<>>
    /\ reads[SCRATCHPAD_STORE] # <<>>
    /\ reads[NEW_TEMPLATE_STORE] # <<>>
    /\ reads[COMPLETED_TASK_STORE] # <<>>

\* The test that short-circuits triggerManualSync.
NothingToSync(reads) ==
    /\ Len(reads[NEW_TASK_STORE]) = 0
    /\ Len(reads[SCRATCHPAD_STORE]) = 0
    /\ Len(reads[NEW_TEMPLATE_STORE]) = 0
    /\ Len(reads[COMPLETED_TASK_STORE]) = 0

\* The test that short-circuits sendQueueToServer of src/static/offline.js:
\* it looks at the flattened task list, not at the batches.
NothingToSyncV1(reads) ==
    /\ Len(reads[NEW_TASK_STORE]) = 0
    /\ Len(flatMap(reads[SCRATCHPAD_STORE])) = 0

\* A body that leaves the completion toggles out.
SyncBodyWithoutCompleted(reads) ==
    [new_tasks        |-> reads[NEW_TASK_STORE],
     scratchpad_tasks |-> flatMap(reads[SCRATCHPAD_STORE]),
     new_templates    |-> reads[NEW_TEMPLATE_STORE],
     completed_tasks  |-> <<>>]

\* The JSON body triggerManualSync posts.
SyncBody(reads) ==
    [new_tasks        |-> reads[NEW_TASK_STORE],
     scratchpad_tasks |-> flatMap(reads[SCRATCHPAD_STORE]),
     new_templates    |-> reads[NEW_TEMPLATE_STORE],
     completed_tasks  |-> reads[COMPLETED_TASK_STORE]]

\* The JSON body sendQueueToServer of src/static/offline.js posts.
SyncBodyV1(reads) ==
    [new_tasks        |-> reads[NEW_TASK_STORE],
     scratchpad_tasks |-> flatMap(reads[SCRATCHPAD_STORE])]

\* A clear that empties every object store of the database.
clearStoreAll(st, s) == [t \in DOMAIN st |-> <<>>]

\* objectStore(storeName).clear(): the records of that store are deleted.
clearStore(st, s) == [st EXCEPT ![s] = <<>>]

\* A test that takes every answer of the server for a success.
ResponseOkAlways(status) == TRUE

\* response.ok
ResponseOk(status) == status = "2xx"

\* What fetch can do: answer 2xx, answer another status, or throw.
FetchOutcomes == {"2xx", "non2xx", "throw"}

NoReads == [s \in Stores |-> <<>>]

\* The tag the pages register for Background Sync; the tags a sync event can
\* carry and the types a message to the worker can carry ("no-data": a
\* message without data).
SYNC_TAG == "background-sync"
SyncTags == {SYNC_TAG, "other-tag"}
MessageTypes == {"SYNC_NOW", "OTHER", "no-data"}

\* A flush that has not been started.
IdleFlush ==
    [pc      |-> "idle",     \* idle, open, read, fetch, clear, post, hung, done
     event   |-> "none",     \* the event whose waitUntil holds the promise of the
                             \* flush, "sync" | "message"; "none" once it has settled
     tag     |-> "none",     \* event.tag of the sync event, event.data.type of the
                             \* message; "none" once the flush has settled
     after   |-> {},         \* the flushes whose promise had settled when this one started
     i       |-> 0,          \* index of the store to read or clear next
     reads   |-> NoReads,    \* what getAll returned for each store read so far
     seen    |-> [s \in Stores |-> 0],  \* the key generator of each store when read
     nread   |-> 0,          \* how many getAll calls have returned
     resp    |-> "none",     \* the outcome of the fetch
     err     |-> "none",     \* the store access that failed: "open" | "read" | "clear"
     result  |-> "none",     \* what triggerManualSync returned: "true" | "false"
     settled |-> "pending",  \* the promise of sendQueueToServer
     pend    |-> {},         \* v1: clear requests issued and not awaited
     cleared |-> {}]         \* the stores this flush has cleared

\* ----------------------------------------------------- the page context
\* The platforms a page can run on: without service workers, with service
\* workers but without Background Sync, with both.
Supports == {{}, {"serviceWorker"}, {"serviceWorker", "SyncManager"}}

\* A capability test that looks for the service worker only.
SupportedWithoutSyncManagerTest(sup) == "serviceWorker" \in sup

\* 'serviceWorker' in navigator && 'SyncManager' in window
Supported(sup) == "serviceWorker" \in sup /\ "SyncManager" \in sup

\* No database yet: indexedDB.open will create it.
NoDatabase == [version |-> 0, names |-> {}]

\* The database as the deployed offline.js leaves it once it has opened it.
DatabaseOf(v) == [version |-> VersionOf(v), names |-> ObjectStoresOf(v)]

\* A writer call that has not been made.
IdleWriter ==
    [pc      |-> "idle",     \* idle, open, tx, done, hung, dead
     by      |-> "none",     \* the offline.js generation that runs the call
     s       |-> "none",     \* the object store the writer adds to
     req     |-> "none",     \* its indexedDB.open request: pending | succeeded | failed
     tx      |-> "none",     \* its transaction: active | committed | aborted
     key     |-> 0,          \* the key of the record it committed
     fault   |-> "none",     \* the storage error that hit it: OpenError | AddError | AbortError
     settled |-> "pending",  \* the promise of the writer
     value   |-> "none",     \* what the promise was rejected with
     reg     |-> "none",     \* registerBackgroundSync: skipped | ready | registered | failed | lost
     onLine  |-> "none",     \* navigator.onLine as the caller read it: "true" | "false"
     returned |-> "none",    \* what addLocalTask / addToSyncQueue returned: "true" | "false"
     page    |-> "none",     \* the save handler that made the call: edit_task | manage_templates
     offlineMode |-> "none", \* localStorage 'offlineMode' === 'true' as the handler read it
     shown   |-> "none",     \* what the handler showed: success | failure | unavailable
     form    |-> "none"]     \* the form of the page: submitted | reset

\* What the page queues.
PagePayloadOf(s) == IF s = SCRATCHPAD_STORE THEN <<"A", "B">> ELSE "t"

\* The page has made no call; the database is the one the deployed offline.js
\* has created.
PageIdle ==
    /\ support = {"serviceWorker", "SyncManager"}
    /\ schema = DatabaseOf(variant)
    /\ pageDb = FALSE
    /\ writer = [w \in WriterIds |-> IdleWriter]

\* ------------------------------------------------------ the cache proxy
\* The fetch handler of the deployed service worker: "sw_v10" is
\* src/unnamed/part_005 (CACHE_NAME ...-v10), "sw_v15" is src/sw.js
\* (...-v15-...), "sw_v23" is src/新しいフォルダー/sw.js (...-v23).
CACHE_NAME_V10 == "todo-grid-cache-v10"
CACHE_NAME_V15 == "todo-grid-cache-v15-full-with-calendar"
CACHE_NAME_V23 == "todo-grid-cache-v23"

Workers == {"sw_v10", "sw_v15", "sw_v23"}
CacheNameOf(w) ==
    IF w = "sw_v23" THEN CACHE_NAME_V23
    ELSE IF w = "sw_v15" THEN CACHE_NAME_V15 ELSE CACHE_NAME_V10

\* The offline.js the worker runs with: 新しいフォルダー/sw.js with its
\* neighbour, the older workers with static/offline.js.
OfflineOf(w) == IF w = "sw_v23" THEN "v7" ELSE "v1"

\* The service worker that imports the deployed offline.js.
SwOf(v) == IF v = "v7" THEN "sw_v23" ELSE "sw_v15"

FetchIds == 1..MaxFetches

\* The requests the pages make: the navigation to a page and the submission
\* of its form, the navigation to the login page, the load of a script that
\* no worker caches at install, and calls of the API from a script.
Urls == {"/todo", "/login", "/static/js/index.js", "/api/sync"}
Requests ==
    {[method |-> "GET",  mode |-> "navigate", url |-> "/todo"],
     [method |-> "POST", mode |-> "navigate", url |-> "/todo"],
     [method |-> "GET",  mode |-> "navigate", url |-> "/login"],
     [method |-> "GET",  mode |-> "cors",     url |-> "/static/js/index.js"],
     [method |-> "GET",  mode |-> "cors",     url |-> "/api/sync"],
     [method |-> "POST", mode |-> "cors",     url |-> "/api/sync"]}

\* A response stored in the cache before the run (at install, or by an
\* earlier request), and the responses the network can give to event e.
Installed == [status |-> "200", of |-> 0]
NetworkResponses(e) == {[status |-> st, of |-> e] : st \in {"200", "404"}}

\* No response (yet), the value undefined, and a network error: a fetch that
\* failed, or what the page gets when the promise given to respondWith rejects.
NoResponse == [status |-> "none", of |-> 0]
Undefined == [status |-> "undefined", of |-> 0]
NetworkError(e) == [status |-> "error", of |-> e]
NetworkOutcomes(e) == NetworkResponses(e) \cup {NetworkError(e)}

NoRequest == [method |-> "none", mode |-> "none", url |-> "none"]

\* The test of src/unnamed/part_005 for its cache-first branch: the URL ends
\* with an entry of APP_SHELL_FILES, or the destination is image, style or
\* script.
IsStaticV10(req) == req.url \in {"/static/js/index.js", "/login"}

\* The URLs of the API and of the authentication pages.
ApiOrAuth == {"/api/sync", "/login"}

\* The shell resources a worker caches at install (APP_SHELL_FILES,
\* APP_SHELL_URLS), as far as they are among Urls.
APP_SHELL_FILES_V10 == {"/login"}
APP_SHELL_FILES_V15 == {"/todo", "/login"}
APP_SHELL_URLS_V23  == {"/todo", "/login"}
ManifestOf(w) ==
    IF w = "sw_v23" THEN APP_SHELL_URLS_V23
    ELSE IF w = "sw_v15" THEN APP_SHELL_FILES_V15 ELSE APP_SHELL_FILES_V10

\* src/sw.js caches each shell resource with its own cache.add(url).catch();
\* the other two workers cache the shell with one cache.addAll.
AddsIndividually(w) == w = "sw_v15"

\* networkResponse.ok
Ok(resp) == resp.status = "200"

\* A cache.put that stores the response of any request.
cachePutAnyMethod(reg, name, req, resp) ==
    [reg EXCEPT ![name] = [@ EXCEPT ![req.url] = resp]]

\* cache.put(request, response) on the cache `name`: rejects with a TypeError
\* when the request's method is not GET, and stores nothing.
cachePut(reg, name, req, resp) ==
    IF req.method # "GET" THEN reg
    ELSE [reg EXCEPT ![name] = [@ EXCEPT ![req.url] = resp]]

\* A cache lookup that finds nothing.
cacheMatchNothing(reg, name, req) == Undefined

\* cache.match(request) on the cache `name`: undefined when the request's
\* method is not GET or the cache has no entry for its URL.
cacheMatch(reg, name, req) ==
    IF req.method # "GET" \/ reg[name][req.url] = NoResponse THEN Undefined
    ELSE reg[name][req.url]

\* caches.match(request): the first match over the caches of the registry.
cachesMatch(reg, req) ==
    IF \E n \in DOMAIN reg : cacheMatch(reg, n, req) # Undefined
    THEN cacheMatch(reg, CHOOSE n \in DOMAIN reg : cacheMatch(reg, n, req) # Undefined, req)
    ELSE Undefined

\* A handler that answers with the promise of the fetch in any case.
fetchPromiseOnly(answered, fetched) == fetched

\* return cachedResponse || fetchPromise: the cached response when the
\* lookup found one (it is the answer already), else what the fetch gives.
cachedOrFetchPromise(answered, fetched) ==
    IF answered = NoResponse THEN fetched ELSE answered

\* A fetch event that has not been dispatched.
IdleFetch ==
    [pc     |-> "idle",   \* idle, default, respond, match, fetch, fallback, put, done
     req    |-> NoRequest,    \* event.request
     cached |-> NoResponse,   \* what the cache lookup of the handler returned
     net    |-> NoResponse,   \* what the network gave: a response or an error
     answer |-> NoResponse,   \* what the page receives: a response, a network
                              \* error, or Undefined (respondWith(undefined))
     put    |-> "none"]   \* the handler's cache.put: pending | stored | TypeError

\* An empty cache, and the cache a superseded worker has left behind.
EmptyCache == [u \in Urls |-> NoResponse]
OldCache == [u \in Urls |-> IF u = "/todo" THEN Installed ELSE NoResponse]

\* A worker script that was parsed and has received no event.
Parsed ==
    [phase   |-> "parsed",   \* parsed, installing, installed, activating, activated, redundant
     adds    |-> [u \in Urls |-> "none"],  \* cache.add / addAll per URL: pending | stored | failed
     keys    |-> {},         \* activate: the cache names caches.keys() gave, not yet examined
     deleted |-> {}]         \* activate: the caches it has deleted

\* A worker that is active.
Activated == [Parsed EXCEPT !.phase = "activated"]

\* The worker is active, has handled no request, and its cache is empty.
ProxyIdle ==
    /\ sw = SwOf(variant)
    /\ lifecycle = Activated
    /\ caches = [n \in {CacheNameOf(sw)} |-> EmptyCache]
    /\ fetchEvent = [e \in FetchIds |-> IdleFetch]

\* ---------------------------------------------------------------- Init
Init ==
    /\ variant \in {"v7", "v1"}
    /\ db = FALSE
    /\ store = [s \in Stores |-> <<>>]
    /\ keyGen = [s \in Stores |-> 0]
    /\ flush = [f \in FlushIds |-> IdleFlush]
    /\ requests = [f \in FlushIds |-> <<>>]
    /\ posted = [c \in Clients |-> [f \in FlushIds |-> 0]]
    /\ PageIdle
    /\ ProxyIdle

\* ------------------------------------------------------------- writers
\* The page's writers.  A writer's transaction commits atomically: the record
\* gets the next key of the store's generator.

TotalWrites ==
    keyGen[NEW_TASK_STORE] + keyGen[SCRATCHPAD_STORE]
        + keyGen[NEW_TEMPLATE_STORE] + keyGen[COMPLETED_TASK_STORE]

\* A clear request on store s has been issued and is not yet carried out.
\* IndexedDB runs the transactions on a store in the order of their creation:
\* a transaction created after the clear waits for it.
ClearPending(s) == \E f \in FlushIds : s \in flush[f].pend

\* An add into a store whose keys are the positions of its records: after a
\* clear the numbering starts again at 1.
AddNumberedByCount(s, d) ==
    /\ TotalWrites < MaxWrites
    /\ ~ClearPending(s)
    /\ store' = [store EXCEPT ![s] = Append(@, NewRecord(s, Len(@) + 1, d))]
    /\ keyGen' = [keyGen EXCEPT ![s] = @ + 1]
    /\ UNCHANGED <<variant, db, flush, requests, posted, pageVars, proxyVars>>

\* transaction.objectStore(s).add(d), committed.
Add(s, d) ==
    /\ TotalWrites < MaxWrites
    /\ ~ClearPending(s)
    /\ store' = [store EXCEPT ![s] = Append(@, NewRecord(s, keyGen[s] + 1, d))]
    /\ keyGen' = [keyGen EXCEPT ![s] = @ + 1]
    /\ UNCHANGED <<variant, db, flush, requests, posted, pageVars, proxyVars>>

saveNewTaskToOutbox ==
    /\ variant = "v7"
    /\ \E d \in PayloadsOf(NEW_TASK_STORE) : Add(NEW_TASK_STORE, d)

saveScratchpadToOutbox ==
    /\ variant = "v7"
    /\ \E d \in PayloadsOf(SCRATCHPAD_STORE) : Add(SCRATCHPAD_STORE, d)

saveTemplateToOutbox ==
    /\ variant = "v7"
    /\ \E d \in PayloadsOf(NEW_TEMPLATE_STORE) : Add(NEW_TEMPLATE_STORE, d)

saveTaskCompletionToOutbox ==
    /\ variant = "v7"
    /\ \E d \in PayloadsOf(COMPLETED_TASK_STORE) : Add(COMPLETED_TASK_STORE, d)

saveTaskToOutboxV1 ==
    /\ variant = "v1"
    /\ \E d \in PayloadsOf(NEW_TASK_STORE) : Add(NEW_TASK_STORE, d)

saveScratchpadToOutboxV1 ==
    /\ variant = "v1"
    /\ \E d \in PayloadsOf(SCRATCHPAD_STORE) : Add(SCRATCHPAD_STORE, d)

\* ------------------------------------------------- starting a flush
\* Flushes are numbered in the order they start.
NextToStart(f) ==
    /\ flush[f].pc = "idle"
    /\ \A g \in FlushIds : g < f => flush[g].pc # "idle"

\* The platform fires one 'sync' event of a tag at a time: the next one is
\* dispatched only after the promise given to waitUntil has settled.
SyncEventPending ==
    \E g \in FlushIds : flush[g].event = "sync" /\ flush[g].pc # "hung"

StartFlush(f, ev, tag) ==
    /\ flush' = [flush EXCEPT ![f] =
            [IdleFlush EXCEPT !.pc = "open", !.event = ev, !.tag = tag,
                              !.after = {g \in FlushIds : flush[g].settled # "pending"}]]
    /\ UNCHANGED <<variant, db, store, keyGen, requests, posted, pageVars, proxyVars>>

\* The listener returns without a call of waitUntil: no flush is started.
\* The slot of the next flush keeps the tag or type of the event last ignored.
Ignore(f, tag) ==
    /\ flush[f].tag # tag
    /\ flush' = [flush EXCEPT ![f] = [@ EXCEPT !.tag = tag]]
    /\ UNCHANGED <<variant, db, store, keyGen, requests, posted, pageVars, proxyVars>>

\* A sync listener that starts a flush for every tag.
IsBackgroundSyncAnyTag(tag) == TRUE

\* event.tag === 'background-sync'
IsBackgroundSync(tag) == tag = SYNC_TAG

\* event.data && event.data.type === 'SYNC_NOW'
IsSyncNow(type) == type = "SYNC_NOW"

\* self.addEventListener('sync', event => ...)
onsync(f, tag) ==
    /\ NextToStart(f)
    /\ ~SyncEventPending
    /\ IF IsBackgroundSync(tag) THEN StartFlush(f, "sync", tag) ELSE Ignore(f, tag)

\* self.addEventListener('message', event => ...)
onmessage(f, type) ==
    /\ NextToStart(f)
    /\ IF IsSyncNow(type) THEN StartFlush(f, "message", type) ELSE Ignore(f, type)

\* The 'sync' event of the tag the page registers, dispatched to the worker
\* of 新しいフォルダー/sw.js.
syncListener(f) ==
    /\ variant = "v7"
    /\ onsync(f, SYNC_TAG)

\* The message { type: 'SYNC_NOW' } of a page, dispatched to the worker of
\* 新しいフォルダー/sw.js.
messageListener(f) ==
    /\ variant = "v7"
    /\ onmessage(f, "SYNC_NOW")

\* The 'sync' event of the tag the page registers, dispatched to the worker
\* of src/sw.js.
syncListenerV1(f) ==
    /\ variant = "v1"
    /\ onsync(f, SYNC_TAG)

\* A sync event of any tag, a message of any type, dispatched to the worker.
\* src/sw.js has no 'message' listener.
sync(f) ==
    /\ \E tag \in SyncTags : onsync(f, tag)

message(f) ==
    /\ variant = "v7"
    /\ \E type \in MessageTypes : onmessage(f, type)

\* The promise of the flush settles: its event is over, and the local
\* variables of the function are gone.
Settle(fl, how) ==
    [fl EXCEPT !.settled = how, !.event = "none", !.tag = "none",
               !.i = 0, !.reads = NoReads, !.seen = [s \in Stores |-> 0], !.nread = 0]

\* The keys of the records a flush read from each store: the records its
\* request carries (the scratchpad batches as their flattened task lists).
KeysOf(reads) == [s \in Stores |-> {reads[s][k].id : k \in 1..Len(reads[s])}]

\* ------------------------------------- the flush of 新しいフォルダー/offline.js
\* clients.matchAll({ type: 'window', includeUncontrolled: true })
matchAll == Clients

\* triggerManualSync returns r (true, or false from its catch block);
\* sendQueueToServer drops the value, calls matchAll(...).then(...) without
\* awaiting it, and returns: its promise is resolved, the messages are posted
\* by a later task.
Return(fl, r) ==
    [Settle(fl, "resolved") EXCEPT !.result = r, !.pc = "post"]

\* const db = await openDB(): the memoized handle, or indexedDB.open, which
\* can fail (request.onerror).
triggerManualSync_openDB(f) ==
    /\ variant = "v7"
    /\ flush[f].pc = "open"
    /\ \/ /\ db' = TRUE
          /\ flush' = [flush EXCEPT ![f] = [@ EXCEPT !.pc = "read", !.i = 1]]
       \/ /\ db = FALSE
          /\ db' = db
          /\ flush' = [flush EXCEPT ![f] = Return([@ EXCEPT !.err = "open"], "false")]
    /\ UNCHANGED <<variant, store, keyGen, requests, posted, pageVars, proxyVars>>

\* await getAll(storeName), for the four stores in turn; after the fourth,
\* the short-circuit test.  request.onerror rejects, and the catch block
\* returns false.
triggerManualSync_getAll(f) ==
    /\ variant = "v7"
    /\ flush[f].pc = "read"
    /\ LET fl == flush[f]
           s  == StoreOrder[fl.i]
           rd == [fl.reads EXCEPT ![s] = store[s]]
           got == [fl EXCEPT !.reads = rd, !.nread = @ + 1, !.seen[s] = keyGen[s]]
       IN  \/ flush' = [flush EXCEPT ![f] =
                    IF fl.i < Len(StoreOrder) THEN [got EXCEPT !.i = @ + 1]
                    ELSE IF NothingToSync(rd) THEN Return(got, "true")
                    ELSE [got EXCEPT !.pc = "fetch", !.i = 0]]
           \/ flush' = [flush EXCEPT ![f] = Return([fl EXCEPT !.err = "read"], "false")]
    /\ UNCHANGED <<variant, db, store, keyGen, requests, posted, pageVars, proxyVars>>

\* await fetch('/api/sync', {method: 'POST', body: ...}) and the test of
\* response.ok: a non-2xx answer throws, a transport error throws, and the
\* catch block returns false.
triggerManualSync_fetch(f) ==
    /\ variant = "v7"
    /\ flush[f].pc = "fetch"
    /\ \E o \in FetchOutcomes :
          /\ requests' = [requests EXCEPT ![f] =
                Append(@, [body |-> SyncBody(flush[f].reads), status |-> o,
                           keys |-> KeysOf(flush[f].reads)])]
          /\ flush' = [flush EXCEPT ![f] =
                IF ResponseOk(o) THEN [@ EXCEPT !.resp = o, !.pc = "clear", !.i = 1]
                ELSE Return([@ EXCEPT !.resp = o], "false")]
    /\ UNCHANGED <<variant, db, store, keyGen, posted, pageVars, proxyVars>>

\* await clearStore(storeName), for the four stores in turn; after the last,
\* return true.  A failed clear rejects, and the catch block returns false.
triggerManualSync_clearStore(f) ==
    /\ variant = "v7"
    /\ flush[f].pc = "clear"
    /\ LET fl == flush[f]
           s  == ClearOrder[fl.i]
           did == [fl EXCEPT !.cleared = @ \cup {s}]
       IN  \/ /\ store' = clearStore(store, s)
              /\ flush' = [flush EXCEPT ![f] =
                    IF fl.i < Len(ClearOrder) THEN [did EXCEPT !.i = @ + 1]
                    ELSE Return(did, "true")]
           \/ /\ store' = store
              /\ flush' = [flush EXCEPT ![f] = Return([fl EXCEPT !.err = "clear"], "false")]
    /\ UNCHANGED <<variant, db, keyGen, requests, posted, pageVars, proxyVars>>

\* clients.forEach(client => client.postMessage({ type: 'SYNC_COMPLETED' }))
sendQueueToServer_postMessage(f) ==
    /\ variant = "v7"
    /\ flush[f].pc = "post"
    /\ posted' = [c \in Clients |->
                    IF c \in matchAll THEN [posted[c] EXCEPT ![f] = @ + 1] ELSE posted[c]]
    /\ flush' = [flush EXCEPT ![f].pc = "done"]
    /\ UNCHANGED <<variant, db, store, keyGen, requests, pageVars, proxyVars>>

\* ---------------------------------------- the flush of static/offline.js
\* self.clients.matchAll(): the window clients the worker controls
matchAllV1 == Controlled

\* const db = await openDB(), outside any try block: a failed open rejects
\* the promise of sendQueueToServer.
sendQueueToServerV1_openDB(f) ==
    /\ variant = "v1"
    /\ flush[f].pc = "open"
    /\ \/ /\ db' = TRUE
          /\ flush' = [flush EXCEPT ![f] = [@ EXCEPT !.pc = "read", !.i = 1]]
       \/ /\ db = FALSE
          /\ db' = db
          /\ flush' = [flush EXCEPT ![f] = [Settle(@, "rejected") EXCEPT !.pc = "done", !.err = "open"]]
    /\ UNCHANGED <<variant, store, keyGen, requests, posted, pageVars, proxyVars>>

\* await new Promise(resolve => store.getAll().onsuccess = ...), for the two
\* stores in turn, then the short-circuit test.  The request has no onerror
\* handler: when it fails the promise never settles.
sendQueueToServerV1_getAll(f) ==
    /\ variant = "v1"
    /\ flush[f].pc = "read"
    /\ ~ClearPending(StoreOrderV1[flush[f].i])
    /\ LET fl == flush[f]
           s  == StoreOrderV1[fl.i]
           rd == [fl.reads EXCEPT ![s] = store[s]]
           got == [fl EXCEPT !.reads = rd, !.nread = @ + 1, !.seen[s] = keyGen[s]]
       IN  \/ flush' = [flush EXCEPT ![f] =
                    IF fl.i < Len(StoreOrderV1) THEN [got EXCEPT !.i = @ + 1]
                    ELSE IF NothingToSyncV1(rd)
                         THEN [Settle(got, "resolved") EXCEPT !.pc = "done"]
                    ELSE [got EXCEPT !.pc = "fetch", !.i = 0]]
           \/ flush' = [flush EXCEPT ![f] = [fl EXCEPT !.pc = "hung", !.err = "read"]]
    /\ UNCHANGED <<variant, db, store, keyGen, requests, posted, pageVars, proxyVars>>

\* await fetch(...).  On 2xx: the two clear requests are issued (awaiting an
\* IDBRequest, which is no promise, waits for nothing), matchAll().then(...)
\* is called and the function returns.  Otherwise the catch block logs the
\* error and the function returns normally.
sendQueueToServerV1_fetch(f) ==
    /\ variant = "v1"
    /\ flush[f].pc = "fetch"
    /\ \E o \in FetchOutcomes :
          /\ requests' = [requests EXCEPT ![f] =
                Append(@, [body |-> SyncBodyV1(flush[f].reads), status |-> o,
                           keys |-> KeysOf(flush[f].reads)])]
          /\ flush' = [flush EXCEPT ![f] =
                IF ResponseOk(o)
                THEN [Settle(@, "resolved") EXCEPT !.resp = o, !.pc = "post",
                                                   !.pend = ClearedV1]
                ELSE [Settle(@, "resolved") EXCEPT !.resp = o, !.pc = "done"]]
    /\ UNCHANGED <<variant, db, store, keyGen, posted, pageVars, proxyVars>>

\* A clear request issued by the flush is carried out (or fails: nobody
\* listens for its error).
sendQueueToServerV1_clear(f, s) ==
    /\ variant = "v1"
    /\ s \in flush[f].pend
    /\ \/ /\ store' = clearStore(store, s)
          /\ flush' = [flush EXCEPT ![f] = [@ EXCEPT !.pend = @ \ {s}, !.cleared = @ \cup {s}]]
       \/ /\ store' = store
          /\ flush' = [flush EXCEPT ![f] = [@ EXCEPT !.pend = @ \ {s}, !.err = "clear"]]
    /\ UNCHANGED <<variant, db, keyGen, requests, posted, pageVars, proxyVars>>

\* clients.forEach(client => client.postMessage({ type: 'SYNC_COMPLETED' }))
sendQueueToServerV1_postMessage(f) ==
    /\ variant = "v1"
    /\ flush[f].pc = "post"
    /\ posted' = [c \in Clients |->
                    IF c \in matchAllV1 THEN [posted[c] EXCEPT ![f] = @ + 1] ELSE posted[c]]
    /\ flush' = [flush EXCEPT ![f].pc = "done"]
    /\ UNCHANGED <<variant, db, store, keyGen, requests, pageVars, proxyVars>>

\* ------------------------------------------------------ specification
Next ==
    \/ saveNewTaskToOutbox
    \/ saveScratchpadToOutbox
    \/ saveTemplateToOutbox
    \/ saveTaskCompletionToOutbox
    \/ saveTaskToOutboxV1
    \/ saveScratchpadToOutboxV1
    \/ \E f \in FlushIds : syncListener(f)
    \/ \E f \in FlushIds : messageListener(f)
    \/ \E f \in FlushIds : syncListenerV1(f)
    \/ \E f \in FlushIds : triggerManualSync_openDB(f)
    \/ \E f \in FlushIds : triggerManualSync_getAll(f)
    \/ \E f \in FlushIds : triggerManualSync_fetch(f)
    \/ \E f \in FlushIds : triggerManualSync_clearStore(f)
    \/ \E f \in FlushIds : sendQueueToServer_postMessage(f)
    \/ \E f \in FlushIds : sendQueueToServerV1_openDB(f)
    \/ \E f \in FlushIds : sendQueueToServerV1_getAll(f)
    \/ \E f \in FlushIds : sendQueueToServerV1_fetch(f)
    \/ \E f \in FlushIds, s \in Stores : sendQueueToServerV1_clear(f, s)
    \/ \E f \in FlushIds : sendQueueToServerV1_postMessage(f)

Spec == Init /\ [][Next]_vars

\* Every step that can be taken is eventually taken: the IndexedDB requests,
\* the fetch and the tasks of the worker complete, and the platform goes on
\* dispatching events.
SpecLive == Spec /\ WF_vars(Next)

\* ------------------------------------------------ process termination
\* A flush that is under way: its function has been called and has neither
\* finished nor been cut off.
Running(fl) == fl.pc \notin {"idle", "done", "dead"}

\* What is left of a flush when the worker is terminated: its promise never
\* settles, its local variables are gone, and the clear requests it had
\* issued and that were not carried out are dropped with their transactions.
Terminated(fl) ==
    IF Running(fl) \/ fl.pend # {}
    THEN [fl EXCEPT !.pc = "dead", !.event = "none", !.tag = "none", !.pend = {},
                    !.i = 0, !.reads = NoReads, !.seen = [s \in Stores |-> 0], !.nread = 0]
    ELSE fl

\* The browser terminates the service worker while a flush is under way.
\* The memoized handle `db` goes with the worker context; the object stores
\* are on disk and stay as they are.
terminate ==
    /\ \E f \in FlushIds : Running(flush[f]) \/ flush[f].pend # {}
    /\ flush' = [f \in FlushIds |-> Terminated(flush[f])]
    /\ db' = FALSE
    /\ UNCHANGED <<variant, store, keyGen, requests, posted, pageVars, proxyVars>>

NextRestart ==
    \/ Next
    \/ terminate

SpecRestart == Init /\ [][NextRestart]_vars

\* ------------------------------------ one flush over a stored outbox
\* The worker is started (by a 'sync' event or a SYNC_NOW message) while the
\* outbox holds records of earlier sessions, and runs one flush; no page
\* writes meanwhile.

\* What a collection can hold: up to MaxStored records, keyed in the order
\* they were added.
StoredIn(s) ==
    {[k \in 1..Len(ds) |-> NewRecord(s, k, ds[k])] :
        ds \in UNION {[1..n -> PayloadsOf(s)] : n \in 0..MaxStored}}

InitFlush ==
    /\ variant \in {"v7", "v1"}
    /\ db = FALSE
    /\ \E a \in StoredIn(NEW_TASK_STORE), b \in StoredIn(SCRATCHPAD_STORE),
          c \in StoredIn(NEW_TEMPLATE_STORE), d \in StoredIn(COMPLETED_TASK_STORE) :
          /\ variant = "v1" => c = <<>> /\ d = <<>>
          /\ store = (NEW_TASK_STORE :> a) @@ (SCRATCHPAD_STORE :> b)
                        @@ (NEW_TEMPLATE_STORE :> c) @@ (COMPLETED_TASK_STORE :> d)
          /\ keyGen = (NEW_TASK_STORE :> Len(a)) @@ (SCRATCHPAD_STORE :> Len(b))
                        @@ (NEW_TEMPLATE_STORE :> Len(c)) @@ (COMPLETED_TASK_STORE :> Len(d))
    /\ flush = [f \in FlushIds |-> IdleFlush]
    /\ requests = [f \in FlushIds |-> <<>>]
    /\ posted = [c \in Clients |-> [f \in FlushIds |-> 0]]
    /\ PageIdle
    /\ ProxyIdle

NextFlush ==
    \/ sync(1)
    \/ message(1)
    \/ triggerManualSync_openDB(1)
    \/ triggerManualSync_getAll(1)
    \/ triggerManualSync_fetch(1)
    \/ triggerManualSync_clearStore(1)
    \/ sendQueueToServer_postMessage(1)
    \/ sendQueueToServerV1_openDB(1)
    \/ sendQueueToServerV1_getAll(1)
    \/ sendQueueToServerV1_fetch(1)
    \/ \E s \in Stores : sendQueueToServerV1_clear(1, s)
    \/ sendQueueToServerV1_postMessage(1)

SpecFlush == InitFlush /\ [][NextFlush]_vars

\* ------------------------------------------------- the outbox writers
\* The page's calls of the writers, step by step.  The writers of
\* 新しいフォルダー/offline.js are called by the pages directly; those of
\* static/offline.js through addLocalTask and addToSyncQueue (offline branch).

\* An upgrade that throws the object stores it finds away and creates its own.
onupgradeneededRecreating(sch, st, v) ==
    [schema |-> DatabaseOf(v), store |-> [s \in Stores |-> <<>>]]

\* request.onupgradeneeded, which runs when the version on disk is lower than
\* the one asked for: every object store that is missing is created, empty.
onupgradeneeded(sch, st, v) ==
    [schema |-> [version |-> VersionOf(v), names |-> sch.names \cup ObjectStoresOf(v)],
     store  |-> [s \in Stores |-> IF s \in sch.names THEN st[s] ELSE <<>>]]

\* The writer calls are numbered in the order the page makes them.
NextCall(w) ==
    /\ writer[w].pc = "idle"
    /\ \A v \in WriterIds : v < w => writer[v].pc # "idle"

\* registerBackgroundSync() up to its first await: nothing without the two
\* capabilities, otherwise it waits for navigator.serviceWorker.ready.
registerBackgroundSync(sup) == IF Supported(sup) THEN "ready" ELSE "skipped"

\* A writer of 新しいフォルダー/offline.js once openDB has resolved:
\* transaction.objectStore(s).add(...); registerBackgroundSync(); return new
\* Promise(...) with the oncomplete and onerror handlers.
saveToOutbox_add(wr) ==
    [wr EXCEPT !.pc = "tx", !.tx = "active", !.reg = registerBackgroundSync(support)]

\* A writer of static/offline.js once openDB has resolved: store.add(...);
\* return transaction.complete, a property IDBTransaction does not have: the
\* writer resolves with undefined.  addLocalTask, which awaited it, calls
\* registerBackgroundSync() and returns true.
addLocalTask_add(wr) ==
    [wr EXCEPT !.pc = "tx", !.tx = "active", !.settled = "resolved",
               !.reg = registerBackgroundSync(support), !.returned = "true"]

\* The code after `const db = await openDB()`: it runs as a microtask of the
\* task that resolved the promise.
AfterOpenDB(wr) ==
    IF wr.by = "v7" THEN saveToOutbox_add(wr) ELSE addLocalTask_add(wr)

\* const db = await openDB(): with the handle memoized the promise is
\* resolved at once, otherwise indexedDB.open(DB_NAME, DB_VERSION) is
\* requested.
CallWriter(w, s, page, flag, onLine) ==
    /\ NextCall(w)
    /\ writer' = [writer EXCEPT ![w] =
            LET called == [@ EXCEPT !.by = variant, !.s = s, !.page = page,
                                    !.offlineMode = flag, !.onLine = onLine]
            IN  IF pageDb THEN AfterOpenDB(called)
                ELSE [called EXCEPT !.pc = "open", !.req = "pending"]]
    /\ UNCHANGED <<variant, db, store, keyGen, flush, requests, posted,
                   support, schema, pageDb, proxyVars>>

\* A writer called by other code than the two save handlers; addLocalTask
\* and addToSyncQueue call theirs when navigator.onLine is false.
CallOpenDB(w, s) ==
    CallWriter(w, s, "none", "none", IF variant = "v1" THEN "false" ELSE "none")

\* saveNewTaskToOutbox, saveScratchpadToOutbox, saveTemplateToOutbox or
\* saveTaskCompletionToOutbox is called.
saveToOutbox_openDB(w) ==
    /\ variant = "v7"
    /\ \E s \in Stores : CallOpenDB(w, s)

\* addLocalTask or addToSyncQueue is called with navigator.onLine false, and
\* calls saveTaskToOutbox, respectively saveScratchpadToOutbox.
addLocalTask_openDB(w) ==
    /\ variant = "v1"
    /\ \E s \in ClearedV1 : CallOpenDB(w, s)

\* addLocalTask or addToSyncQueue is called with navigator.onLine true: it
\* logs and returns false.
addLocalTask_online(w) ==
    /\ variant = "v1"
    /\ NextCall(w)
    /\ \E s \in ClearedV1 :
          writer' = [writer EXCEPT ![w] =
              [@ EXCEPT !.pc = "done", !.by = variant, !.s = s,
                        !.onLine = "true", !.returned = "false"]]
    /\ UNCHANGED <<variant, db, store, keyGen, flush, requests, posted,
                   support, schema, pageDb, proxyVars>>

\* request.onsuccess of openDB, after request.onupgradeneeded when the
\* database on disk is older: the handle is memoized and the writer goes on.
openDB_onsuccess(w) ==
    /\ writer[w].pc = "open"
    /\ schema.version <= VersionOf(variant)
    /\ LET up == IF schema.version < VersionOf(variant)
                 THEN onupgradeneeded(schema, store, variant)
                 ELSE [schema |-> schema, store |-> store]
       IN  schema' = up.schema /\ store' = up.store
    /\ pageDb' = TRUE
    /\ writer' = [writer EXCEPT ![w] = AfterOpenDB([@ EXCEPT !.req = "succeeded"])]
    /\ UNCHANGED <<variant, db, keyGen, flush, requests, posted, support, proxyVars>>

\* What openDB rejects with: e.target.error in 新しいフォルダー/offline.js, the
\* string "Database error: " + event.target.errorCode in static/offline.js.
OpenErrorValue(v) == IF v = "v7" THEN "OpenError" ELSE "Database error: undefined"

\* request.onerror of openDB: the writer's await throws, the writer rejects.
openDB_onerror(w) ==
    /\ writer[w].pc = "open"
    /\ writer' = [writer EXCEPT ![w] =
            [@ EXCEPT !.pc = "done", !.req = "failed", !.fault = "OpenError",
                      !.settled = "rejected", !.value = OpenErrorValue(variant)]]
    /\ UNCHANGED <<variant, db, store, keyGen, flush, requests, posted,
                   support, schema, pageDb, proxyVars>>

\* The transaction of writer w commits: the record is in the store under
\* the next key of the store's generator.
Commit(w) ==
    LET s == writer[w].s
    IN  /\ store' = [store EXCEPT ![s] =
                Append(@, NewRecord(s, keyGen[s] + 1, PagePayloadOf(s)))]
        /\ keyGen' = [keyGen EXCEPT ![s] = @ + 1]

\* transaction.oncomplete = () => resolve()
transaction_oncomplete(w) ==
    /\ variant = "v7"
    /\ writer[w].pc = "tx"
    /\ Commit(w)
    /\ writer' = [writer EXCEPT ![w] =
            [@ EXCEPT !.pc = "done", !.tx = "committed", !.settled = "resolved",
                      !.key = keyGen[writer[w].s] + 1]]
    /\ UNCHANGED <<variant, db, flush, requests, posted,
                   support, schema, pageDb, proxyVars>>

\* The add request fails and its error event bubbles to transaction.onerror
\* = () => reject(transaction.error).  The transaction is aborted, and its
\* error attribute set, only after the event has been dispatched: the handler
\* reads null.
transaction_onerror(w) ==
    /\ variant = "v7"
    /\ writer[w].pc = "tx"
    /\ writer' = [writer EXCEPT ![w] =
            [@ EXCEPT !.pc = "done", !.tx = "aborted", !.fault = "AddError",
                      !.settled = "rejected", !.value = "null"]]
    /\ UNCHANGED <<variant, db, store, keyGen, flush, requests, posted,
                   support, schema, pageDb, proxyVars>>

\* The transaction is aborted without a request error (the commit fails, as
\* when the quota is exceeded): only an abort event is fired, for which the
\* writer has no handler, and its promise stays pending.
transaction_onabort(w) ==
    /\ variant = "v7"
    /\ writer[w].pc = "tx"
    /\ writer' = [writer EXCEPT ![w] =
            [@ EXCEPT !.pc = "hung", !.tx = "aborted", !.fault = "AbortError"]]
    /\ UNCHANGED <<variant, db, store, keyGen, flush, requests, posted,
                   support, schema, pageDb, proxyVars>>

\* The transaction of saveTaskToOutbox / saveScratchpadToOutbox commits;
\* nothing listens.
transactionV1_complete(w) ==
    /\ variant = "v1"
    /\ writer[w].pc = "tx"
    /\ Commit(w)
    /\ writer' = [writer EXCEPT ![w] =
            [@ EXCEPT !.pc = "done", !.tx = "committed", !.key = keyGen[writer[w].s] + 1]]
    /\ UNCHANGED <<variant, db, flush, requests, posted,
                   support, schema, pageDb, proxyVars>>

\* The transaction of saveTaskToOutbox / saveScratchpadToOutbox fails (the
\* add request, or the commit); nothing listens.
transactionV1_abort(w) ==
    /\ variant = "v1"
    /\ writer[w].pc = "tx"
    /\ writer' = [writer EXCEPT ![w] =
            [@ EXCEPT !.pc = "done", !.tx = "aborted", !.fault = "AbortError"]]
    /\ UNCHANGED <<variant, db, store, keyGen, flush, requests, posted,
                   support, schema, pageDb, proxyVars>>

\* A registration without the try block, awaited by the writer: a rejection
\* of sync.register rejects the writer's promise.
registerBackgroundSync_registerUncaught(w) ==
    /\ writer[w].reg = "ready"
    /\ \E r \in {"registered", "failed"} :
          writer' = [writer EXCEPT ![w] =
              IF r = "failed" /\ @.settled = "pending"
              THEN [@ EXCEPT !.reg = r, !.settled = "rejected", !.value = "RegistrationError"]
              ELSE [@ EXCEPT !.reg = r]]
    /\ UNCHANGED <<variant, db, store, keyGen, flush, requests, posted,
                   support, schema, pageDb, proxyVars>>

\* registerBackgroundSync after navigator.serviceWorker.ready has resolved:
\* registration.sync.register(SYNC_TAG) is requested; a rejection is caught
\* and logged.
registerBackgroundSync_register(w) ==
    /\ writer[w].reg = "ready"
    /\ \E r \in {"registered", "failed"} :
          writer' = [writer EXCEPT ![w].reg = r]
    /\ UNCHANGED <<variant, db, store, keyGen, flush, requests, posted,
                   support, schema, pageDb, proxyVars>>

\* static/offline.js is replaced by its successor and the page is loaded
\* again: the old context is gone, with its memoized handle, its pending
\* promises and its transactions that have not committed.
deploy ==
    /\ variant = "v1"
    /\ variant' = "v7"
    /\ pageDb' = FALSE
    /\ writer' = [w \in WriterIds |->
            IF writer[w].pc = "idle" THEN writer[w]
            ELSE [writer[w] EXCEPT
                    !.pc  = IF @ = "done" THEN "done" ELSE "dead",
                    !.req = "none",
                    !.tx  = IF @ = "active" THEN "aborted" ELSE @,
                    !.reg = IF @ = "ready" THEN "lost" ELSE @]]
    /\ UNCHANGED <<db, store, keyGen, flush, requests, posted, support, schema, proxyVars>>

\* ------------------------------------------- the save handlers of the pages
\* A test that looks at the offlineMode flag only.
IsOfflineByFlagOnly(flag, onLine) == flag = "true"

\* const isOffline = localStorage.getItem('offlineMode') === 'true' ||
\* !navigator.onLine
IsOffline(flag, onLine) == flag = "true" \/ onLine # "true"

\* typeof saveNewTaskToOutbox === 'function', typeof saveTemplateToOutbox
\* === 'function': 新しいフォルダー/offline.js defines the two writers,
\* static/offline.js does not.
HasWriter(v) == v = "v7"

\* showLoadingOverlay(...) has been called for a save and neither
\* hideLoadingOverlay() nor a navigation has followed: the overlay covers
\* the page, and its save button cannot be clicked.
OverlayShown ==
    \E v \in WriterIds :
        /\ writer[v].page # "none"
        /\ writer[v].pc \notin {"idle", "dead"}
        /\ writer[v].shown = "none"
        /\ writer[v].form = "none"

\* The page is left: its pending promises and the transactions it has not
\* committed are gone.
Unloaded(wr) ==
    IF wr.pc \in {"idle", "done"} THEN [wr EXCEPT !.reg = IF @ = "ready" THEN "lost" ELSE @]
    ELSE [wr EXCEPT !.pc = "dead", !.req = "none",
                    !.tx = IF @ = "active" THEN "aborted" ELSE @,
                    !.reg = IF @ = "ready" THEN "lost" ELSE @]

\* The save handler of a page, for a new item that has passed the
\* validation.  Offline with the writer defined: the writer is called and
\* the handler returns; offline without the writer: an alert says that
\* saving is not available; online: form.submit().
Save(w, s, page) ==
    /\ ~OverlayShown
    /\ \E flag \in {"true", "false"}, onLine \in {"true", "false"} :
        IF IsOffline(flag, onLine) /\ HasWriter(variant)
        THEN CallWriter(w, s, page, flag, onLine)
        ELSE /\ NextCall(w)
             /\ LET read == [writer[w] EXCEPT !.pc = "done", !.page = page,
                                              !.offlineMode = flag, !.onLine = onLine]
                IN  IF IsOffline(flag, onLine)
                    THEN /\ writer' = [writer EXCEPT ![w] = [read EXCEPT !.shown = "unavailable"]]
                         /\ pageDb' = pageDb
                    ELSE /\ writer' = [v \in WriterIds |->
                                IF v = w THEN [read EXCEPT !.form = "submitted"]
                                ELSE Unloaded(writer[v])]
                         /\ pageDb' = FALSE
             /\ UNCHANGED <<variant, db, store, keyGen, flush, requests, posted,
                            support, schema, proxyVars>>

\* saveTask of edit_task.js for a new task
saveTask(w) == Save(w, NEW_TASK_STORE, "edit_task")

\* the click listener of the save-template button of manage_templates.js
saveTemplate(w) == Save(w, NEW_TEMPLATE_STORE, "manage_templates")

\* The writer's promise has resolved.  edit_task.js: .then(() => {
\* window.location.href = ... }), the page is left for the day's list.
\* manage_templates.js: the code after the await: the alert that the
\* template was saved offline, then templateForm.reset().
onfulfilled(w) ==
    /\ writer[w].page # "none"
    /\ writer[w].settled = "resolved"
    /\ writer[w].shown = "none"
    /\ IF writer[w].page = "edit_task"
       THEN /\ writer' = [v \in WriterIds |->
                    IF v = w THEN [Unloaded(writer[v]) EXCEPT !.shown = "success"]
                    ELSE Unloaded(writer[v])]
            /\ pageDb' = FALSE
       ELSE /\ writer' = [writer EXCEPT ![w] = [@ EXCEPT !.shown = "success", !.form = "reset"]]
            /\ pageDb' = pageDb
    /\ UNCHANGED <<variant, db, store, keyGen, flush, requests, posted,
                   support, schema, proxyVars>>

\* The writer's promise has rejected.  edit_task.js: .catch(error => {
\* alert(...) }); manage_templates.js: catch(e) { alert(...) }.  The form
\* stays as it is.
onrejected(w) ==
    /\ writer[w].page # "none"
    /\ writer[w].settled = "rejected"
    /\ writer[w].shown = "none"
    /\ writer' = [writer EXCEPT ![w] = [@ EXCEPT !.shown = "failure"]]
    /\ UNCHANGED <<variant, db, store, keyGen, flush, requests, posted,
                   support, schema, pageDb, proxyVars>>

NextSave ==
    \/ \E w \in WriterIds : saveTask(w)
    \/ \E w \in WriterIds : saveTemplate(w)
    \/ \E w \in WriterIds : openDB_onsuccess(w)
    \/ \E w \in WriterIds : openDB_onerror(w)
    \/ \E w \in WriterIds : transaction_oncomplete(w)
    \/ \E w \in WriterIds : transaction_onerror(w)
    \/ \E w \in WriterIds : transaction_onabort(w)
    \/ \E w \in WriterIds : registerBackgroundSync_register(w)
    \/ \E w \in WriterIds : onfulfilled(w)
    \/ \E w \in WriterIds : onrejected(w)

\* ------------------------------------------------------ the page's writers
InitPage ==
    /\ variant \in {"v7", "v1"}
    /\ db = FALSE
    /\ store = [s \in Stores |-> <<>>]
    /\ keyGen = [s \in Stores |-> 0]
    /\ flush = [f \in FlushIds |-> IdleFlush]
    /\ requests = [f \in FlushIds |-> <<>>]
    /\ posted = [c \in Clients |-> [f \in FlushIds |-> 0]]
    /\ support \in Supports
    /\ schema = NoDatabase
    /\ pageDb = FALSE
    /\ writer = [w \in WriterIds |-> IdleWriter]
    /\ ProxyIdle

NextPage ==
    \/ \E w \in WriterIds : saveToOutbox_openDB(w)
    \/ \E w \in WriterIds : addLocalTask_openDB(w)
    \/ \E w \in WriterIds : addLocalTask_online(w)
    \/ \E w \in WriterIds : openDB_onsuccess(w)
    \/ \E w \in WriterIds : openDB_onerror(w)
    \/ \E w \in WriterIds : transaction_oncomplete(w)
    \/ \E w \in WriterIds : transaction_onerror(w)
    \/ \E w \in WriterIds : transaction_onabort(w)
    \/ \E w \in WriterIds : transactionV1_complete(w)
    \/ \E w \in WriterIds : transactionV1_abort(w)
    \/ \E w \in WriterIds : registerBackgroundSync_register(w)
    \/ deploy

SpecPage == InitPage /\ [][NextPage]_vars

\* The pages edit_task and manage_templates save new items.
SpecSave == InitPage /\ [][NextSave]_vars

\* The reactions of a settled promise run: they are microtasks of the task
\* that settled it.
SpecSaveLive ==
    SpecSave /\ WF_vars(\E w \in WriterIds : onfulfilled(w) \/ onrejected(w))

\* ----------------------------------------------- the fetch handlers
syncAndPageVars == <<variant, db, store, keyGen, flush, requests, posted, pageVars>>

\* A caches.open that also empties every cache of the registry.
cachesOpenClearing(reg, name) ==
    [n \in DOMAIN reg \cup {name} |-> EmptyCache]

\* ------------------------------------------ the install and activate handlers
\* caches.open(name): the cache is created when the registry has none.
cachesOpen(reg, name) ==
    IF name \in DOMAIN reg THEN reg
    ELSE [n \in DOMAIN reg \cup {name} |-> IF n = name THEN EmptyCache ELSE reg[n]]

\* caches.delete(name)
cachesDelete(reg, name) == [n \in DOMAIN reg \ {name} |-> reg[n]]

\* An activate handler that keeps every cache.
IsSupersededNever(name, w) == FALSE

\* cacheWhitelist.indexOf(cacheName) === -1, cacheName !== CACHE_NAME
IsSuperseded(name, w) == name # CacheNameOf(w)

\* The 'install' listener: caches.open(CACHE_NAME), and the requests for the
\* shell are issued, one cache.add each or one cache.addAll.
install ==
    /\ lifecycle.phase = "parsed"
    /\ caches' = cachesOpen(caches, CacheNameOf(sw))
    /\ lifecycle' = [lifecycle EXCEPT
            !.phase = "installing",
            !.adds = [u \in Urls |-> IF u \in ManifestOf(sw) THEN "pending" ELSE "none"]]
    /\ UNCHANGED <<syncAndPageVars, sw, fetchEvent>>

\* src/sw.js: cache.add(url).catch(err => console.error(...)).  The response
\* is stored when the fetch gave an ok response; otherwise cache.add rejects
\* and the rejection is logged.
cacheAdd(u) ==
    /\ lifecycle.phase = "installing"
    /\ AddsIndividually(sw)
    /\ lifecycle.adds[u] = "pending"
    /\ \E ok \in BOOLEAN :
          IF ok
          THEN /\ caches' = [caches EXCEPT ![CacheNameOf(sw)] = [@ EXCEPT ![u] = Installed]]
               /\ lifecycle' = [lifecycle EXCEPT !.adds = [@ EXCEPT ![u] = "stored"]]
          ELSE /\ caches' = caches
               /\ lifecycle' = [lifecycle EXCEPT !.adds = [@ EXCEPT ![u] = "failed"]]
    /\ UNCHANGED <<syncAndPageVars, sw, fetchEvent>>

\* src/sw.js: await Promise.all(appShellPromises) ... return
\* Promise.all(calendarPromises): every promise has a catch, the install
\* succeeds whatever failed.
installDone ==
    /\ lifecycle.phase = "installing"
    /\ AddsIndividually(sw)
    /\ \A u \in Urls : lifecycle.adds[u] # "pending"
    /\ lifecycle' = [lifecycle EXCEPT !.phase = "installed"]
    /\ UNCHANGED <<syncAndPageVars, sw, caches, fetchEvent>>

\* 新しいフォルダー/sw.js, part_005: cache.addAll(shell).  When every fetch
\* gives an ok response all of them are stored and the install goes on;
\* when one does not, addAll rejects, nothing is stored, the promise given to
\* waitUntil rejects and the worker is discarded.
cacheAddAll ==
    /\ lifecycle.phase = "installing"
    /\ ~AddsIndividually(sw)
    /\ \E failed \in SUBSET ManifestOf(sw) :
          IF failed = {}
          THEN /\ caches' = [caches EXCEPT ![CacheNameOf(sw)] =
                      [u \in Urls |-> IF u \in ManifestOf(sw) THEN Installed ELSE @[u]]]
               /\ lifecycle' = [lifecycle EXCEPT
                      !.phase = "installed",
                      !.adds = [u \in Urls |-> IF u \in ManifestOf(sw) THEN "stored" ELSE "none"]]
          ELSE /\ caches' = caches
               /\ lifecycle' = [lifecycle EXCEPT
                      !.phase = "redundant",
                      !.adds = [u \in Urls |->
                                  IF u \in failed THEN "failed"
                                  ELSE IF u \in ManifestOf(sw) THEN "discarded" ELSE "none"]]
    /\ UNCHANGED <<syncAndPageVars, sw, fetchEvent>>

\* The 'activate' listener: caches.keys()
activate ==
    /\ lifecycle.phase = "installed"
    /\ lifecycle' = [lifecycle EXCEPT !.phase = "activating", !.keys = DOMAIN caches]
    /\ UNCHANGED <<syncAndPageVars, sw, caches, fetchEvent>>

\* cacheNames.map(cacheName => ...): a cache that is not the current one is
\* deleted.
activate_map(n) ==
    /\ lifecycle.phase = "activating"
    /\ n \in lifecycle.keys
    /\ IF IsSuperseded(n, sw)
       THEN /\ caches' = cachesDelete(caches, n)
            /\ lifecycle' = [lifecycle EXCEPT !.keys = @ \ {n}, !.deleted = @ \cup {n}]
       ELSE /\ caches' = caches
            /\ lifecycle' = [lifecycle EXCEPT !.keys = @ \ {n}]
    /\ UNCHANGED <<syncAndPageVars, sw, fetchEvent>>

\* Promise.all(...) has resolved (then self.clients.claim()): the handler
\* completes and the worker is active.
activateDone ==
    /\ lifecycle.phase = "activating"
    /\ lifecycle.keys = {}
    /\ lifecycle' = [lifecycle EXCEPT !.phase = "activated"]
    /\ UNCHANGED <<syncAndPageVars, sw, caches, fetchEvent>>

\* The fetch events are numbered in the order they are dispatched; they are
\* dispatched to the active worker.
NextFetch(e) ==
    /\ lifecycle.phase = "activated"
    /\ fetchEvent[e].pc = "idle"
    /\ \A d \in FetchIds : d < e => fetchEvent[d].pc # "idle"

\* The result of a cache.put of event e.
PutResult(before, after) == IF after = before THEN "TypeError" ELSE "stored"

\* src/sw.js: a request that is not a GET is left to the browser (the handler
\* returns without respondWith); a GET is looked up with caches.match.
fetchListenerV15(e) ==
    /\ sw = "sw_v15"
    /\ NextFetch(e)
    /\ \E r \in Requests :
          fetchEvent' = [fetchEvent EXCEPT ![e] =
              [@ EXCEPT !.req = r, !.pc = IF r.method # "GET" THEN "default" ELSE "match"]]
    /\ UNCHANGED <<syncAndPageVars, sw, lifecycle, caches>>

\* The browser performs a request the handler did not answer.
browserFetch(e) ==
    /\ fetchEvent[e].pc = "default"
    /\ \E o \in NetworkOutcomes(e) :
          fetchEvent' = [fetchEvent EXCEPT ![e] =
              [@ EXCEPT !.net = o, !.answer = o, !.pc = "done"]]
    /\ UNCHANGED <<syncAndPageVars, sw, lifecycle, caches>>

\* caches.match(event.request).then(cachedResponse => ...): the cached
\* response is returned when there is one, otherwise fetch is called.
cachesMatchV15(e) ==
    /\ sw = "sw_v15"
    /\ fetchEvent[e].pc = "match"
    /\ LET c == cachesMatch(caches, fetchEvent[e].req)
       IN  fetchEvent' = [fetchEvent EXCEPT ![e] =
              IF c # Undefined THEN [@ EXCEPT !.cached = c, !.answer = c, !.pc = "done"]
              ELSE [@ EXCEPT !.cached = c, !.pc = "fetch"]]
    /\ UNCHANGED <<syncAndPageVars, sw, lifecycle, caches>>

\* fetch(event.request).then(networkResponse => ...): an ok response is
\* cloned for caches.open(CACHE_NAME).then(cache => cache.put(...)), which is
\* not waited for; the response is returned.  A failed fetch rejects the
\* promise given to respondWith.
fetchV15(e) ==
    /\ sw = "sw_v15"
    /\ fetchEvent[e].pc = "fetch"
    /\ \E o \in NetworkOutcomes(e) :
          fetchEvent' = [fetchEvent EXCEPT ![e] =
              IF o # NetworkError(e) /\ Ok(o)
              THEN [@ EXCEPT !.net = o, !.answer = o, !.put = "pending", !.pc = "put"]
              ELSE [@ EXCEPT !.net = o, !.answer = o, !.pc = "done"]]
    /\ UNCHANGED <<syncAndPageVars, sw, lifecycle, caches>>

\* cache.put(event.request, responseToCache)
cachePutV15(e) ==
    /\ sw = "sw_v15"
    /\ fetchEvent[e].pc = "put"
    /\ caches' = cachePut(caches, CACHE_NAME_V15, fetchEvent[e].req, fetchEvent[e].net)
    /\ fetchEvent' = [fetchEvent EXCEPT ![e] =
            [@ EXCEPT !.put = PutResult(caches, caches'), !.pc = "done"]]
    /\ UNCHANGED <<syncAndPageVars, sw, lifecycle>>

\* 新しいフォルダー/sw.js: a navigation is fetched (after caches.open), any
\* other request is looked up with caches.match; the method is not looked at.
fetchListenerV23(e) ==
    /\ sw = "sw_v23"
    /\ NextFetch(e)
    /\ \E r \in Requests :
          fetchEvent' = [fetchEvent EXCEPT ![e] =
              [@ EXCEPT !.req = r, !.pc = IF r.mode = "navigate" THEN "fetch" ELSE "match"]]
    /\ UNCHANGED <<syncAndPageVars, sw, lifecycle, caches>>

\* The fetch of a navigation: the response is put into the cache (not waited
\* for) and returned; on a failed fetch the catch handler calls cache.match.
navigateFetchV23(e) ==
    /\ sw = "sw_v23"
    /\ fetchEvent[e].pc = "fetch"
    /\ fetchEvent[e].req.mode = "navigate"
    /\ \E o \in NetworkOutcomes(e) :
          fetchEvent' = [fetchEvent EXCEPT ![e] =
              IF o # NetworkError(e)
              THEN [@ EXCEPT !.net = o, !.answer = o, !.put = "pending", !.pc = "put"]
              ELSE [@ EXCEPT !.net = o, !.pc = "fallback"]]
    /\ UNCHANGED <<syncAndPageVars, sw, lifecycle, caches>>

\* .catch(() => cache.match(event.request)): what the cache holds, or
\* undefined, is given to respondWith.
navigateFallbackV23(e) ==
    /\ sw = "sw_v23"
    /\ fetchEvent[e].pc = "fallback"
    /\ LET c == cacheMatch(caches, CACHE_NAME_V23, fetchEvent[e].req)
       IN  fetchEvent' = [fetchEvent EXCEPT ![e] =
              [@ EXCEPT !.cached = c, !.answer = c, !.pc = "done"]]
    /\ UNCHANGED <<syncAndPageVars, sw, lifecycle, caches>>

\* caches.match(event.request).then(cachedResponse => ...): fetch is called
\* in any case, and cachedResponse || fetchPromise is returned.
cachesMatchV23(e) ==
    /\ sw = "sw_v23"
    /\ fetchEvent[e].pc = "match"
    /\ LET c == cachesMatch(caches, fetchEvent[e].req)
       IN  fetchEvent' = [fetchEvent EXCEPT ![e] =
              IF c # Undefined THEN [@ EXCEPT !.cached = c, !.answer = c, !.pc = "fetch"]
              ELSE [@ EXCEPT !.cached = c, !.pc = "fetch"]]
    /\ UNCHANGED <<syncAndPageVars, sw, lifecycle, caches>>

\* fetchPromise: the response, whatever its status, is put into the cache
\* (not waited for) and returned; it answers the event unless the cached
\* response did.  A failed fetch rejects fetchPromise.
revalidateV23(e) ==
    /\ sw = "sw_v23"
    /\ fetchEvent[e].pc = "fetch"
    /\ fetchEvent[e].req.mode # "navigate"
    /\ \E o \in NetworkOutcomes(e) :
          fetchEvent' = [fetchEvent EXCEPT ![e] =
              LET ans == cachedOrFetchPromise(@.answer, o)
              IN  IF o # NetworkError(e)
                  THEN [@ EXCEPT !.net = o, !.answer = ans, !.put = "pending", !.pc = "put"]
                  ELSE [@ EXCEPT !.net = o, !.answer = ans, !.pc = "done"]]
    /\ UNCHANGED <<syncAndPageVars, sw, lifecycle, caches>>

\* cache.put(event.request, networkResponse.clone())
cachePutV23(e) ==
    /\ sw = "sw_v23"
    /\ fetchEvent[e].pc = "put"
    /\ caches' = cachePut(caches, CACHE_NAME_V23, fetchEvent[e].req, fetchEvent[e].net)
    /\ fetchEvent' = [fetchEvent EXCEPT ![e] =
            [@ EXCEPT !.put = PutResult(caches, caches'), !.pc = "done"]]
    /\ UNCHANGED <<syncAndPageVars, sw, lifecycle>>

\* src/unnamed/part_005: a request that is not a GET is answered with
\* fetch(event.request).  For a GET navigation the test
\* !self.clients.url.startsWith('https://') throws a TypeError (Clients has
\* no url): the listener ends without respondWith and the browser performs
\* the request.  Any other GET is looked up in the cache.
fetchListenerV10(e) ==
    /\ sw = "sw_v10"
    /\ NextFetch(e)
    /\ \E r \in Requests :
          fetchEvent' = [fetchEvent EXCEPT ![e] =
              [@ EXCEPT !.req = r,
                        !.pc = IF r.method # "GET" THEN "respond"
                               ELSE IF r.mode = "navigate" THEN "default" ELSE "match"]]
    /\ UNCHANGED <<syncAndPageVars, sw, lifecycle, caches>>

\* event.respondWith(fetch(event.request))
respondFetchV10(e) ==
    /\ sw = "sw_v10"
    /\ fetchEvent[e].pc = "respond"
    /\ \E o \in NetworkOutcomes(e) :
          fetchEvent' = [fetchEvent EXCEPT ![e] =
              [@ EXCEPT !.net = o, !.answer = o, !.pc = "done"]]
    /\ UNCHANGED <<syncAndPageVars, sw, lifecycle, caches>>

\* Cache first: caches.match(event.request).then(cachedResponse =>
\* cachedResponse || fetch(event.request).then(...))
cachesMatchV10(e) ==
    /\ sw = "sw_v10"
    /\ fetchEvent[e].pc = "match"
    /\ IsStaticV10(fetchEvent[e].req)
    /\ LET c == cachesMatch(caches, fetchEvent[e].req)
       IN  fetchEvent' = [fetchEvent EXCEPT ![e] =
              IF c # Undefined THEN [@ EXCEPT !.cached = c, !.answer = c, !.pc = "done"]
              ELSE [@ EXCEPT !.cached = c, !.pc = "fetch"]]
    /\ UNCHANGED <<syncAndPageVars, sw, lifecycle, caches>>

\* Cache first, nothing cached: the response, whatever its status, is put
\* into the cache (not waited for) and returned; a failed fetch rejects.
fetchStaticV10(e) ==
    /\ sw = "sw_v10"
    /\ fetchEvent[e].pc = "fetch"
    /\ IsStaticV10(fetchEvent[e].req)
    /\ \E o \in NetworkOutcomes(e) :
          fetchEvent' = [fetchEvent EXCEPT ![e] =
              IF o # NetworkError(e)
              THEN [@ EXCEPT !.net = o, !.answer = o, !.put = "pending", !.pc = "put"]
              ELSE [@ EXCEPT !.net = o, !.answer = o, !.pc = "done"]]
    /\ UNCHANGED <<syncAndPageVars, sw, lifecycle, caches>>

\* Stale while revalidate: cache.match(event.request) on the cache
\* CACHE_NAME; fetch is called in any case, and response || fetchPromise is
\* returned.
cacheMatchV10(e) ==
    /\ sw = "sw_v10"
    /\ fetchEvent[e].pc = "match"
    /\ ~IsStaticV10(fetchEvent[e].req)
    /\ LET c == cacheMatch(caches, CACHE_NAME_V10, fetchEvent[e].req)
       IN  fetchEvent' = [fetchEvent EXCEPT ![e] =
              IF c # Undefined THEN [@ EXCEPT !.cached = c, !.answer = c, !.pc = "fetch"]
              ELSE [@ EXCEPT !.cached = c, !.pc = "fetch"]]
    /\ UNCHANGED <<syncAndPageVars, sw, lifecycle, caches>>

\* fetchPromise: a response of status 200 is put into the cache (not waited
\* for); the response is returned.  A failed fetch is caught and logged:
\* fetchPromise resolves with undefined.
revalidateV10(e) ==
    /\ sw = "sw_v10"
    /\ fetchEvent[e].pc = "fetch"
    /\ ~IsStaticV10(fetchEvent[e].req)
    /\ \E o \in NetworkOutcomes(e) :
          fetchEvent' = [fetchEvent EXCEPT ![e] =
              LET res == IF o = NetworkError(e) THEN Undefined ELSE o
                  ans == cachedOrFetchPromise(@.answer, res)
              IN  IF o # NetworkError(e) /\ Ok(o)
                  THEN [@ EXCEPT !.net = o, !.answer = ans, !.put = "pending", !.pc = "put"]
                  ELSE [@ EXCEPT !.net = o, !.answer = ans, !.pc = "done"]]
    /\ UNCHANGED <<syncAndPageVars, sw, lifecycle, caches>>

\* cache.put(event.request, networkResponse.clone())
cachePutV10(e) ==
    /\ sw = "sw_v10"
    /\ fetchEvent[e].pc = "put"
    /\ caches' = cachePut(caches, CACHE_NAME_V10, fetchEvent[e].req, fetchEvent[e].net)
    /\ fetchEvent' = [fetchEvent EXCEPT ![e] =
            [@ EXCEPT !.put = PutResult(caches, caches'), !.pc = "done"]]
    /\ UNCHANGED <<syncAndPageVars, sw, lifecycle>>

\* The caches of superseded workers the registry can hold when a worker is
\* deployed.
OldRegistries(w) ==
    {[n \in names |-> OldCache] : names \in SUBSET {CacheNameOf(x) : x \in Workers \ {w}}}

\* A worker script has been deployed; the registry holds what its
\* predecessors have left.
InitProxy ==
    /\ sw \in Workers
    /\ lifecycle = Parsed
    /\ variant = OfflineOf(sw)
    /\ db = FALSE
    /\ store = [s \in Stores |-> <<>>]
    /\ keyGen = [s \in Stores |-> 0]
    /\ flush = [f \in FlushIds |-> IdleFlush]
    /\ requests = [f \in FlushIds |-> <<>>]
    /\ posted = [c \in Clients |-> [f \in FlushIds |-> 0]]
    /\ PageIdle
    /\ caches \in OldRegistries(sw)
    /\ fetchEvent = [e \in FetchIds |-> IdleFetch]

NextProxy ==
    \/ install
    \/ \E u \in Urls : cacheAdd(u)
    \/ installDone
    \/ cacheAddAll
    \/ activate
    \/ \E n \in DOMAIN caches : activate_map(n)
    \/ activateDone
    \/ \E e \in FetchIds : fetchListenerV10(e)
    \/ \E e \in FetchIds : respondFetchV10(e)
    \/ \E e \in FetchIds : cachesMatchV10(e)
    \/ \E e \in FetchIds : fetchStaticV10(e)
    \/ \E e \in FetchIds : cacheMatchV10(e)
    \/ \E e \in FetchIds : revalidateV10(e)
    \/ \E e \in FetchIds : cachePutV10(e)
    \/ \E e \in FetchIds : fetchListenerV15(e)
    \/ \E e \in FetchIds : browserFetch(e)
    \/ \E e \in FetchIds : cachesMatchV15(e)
    \/ \E e \in FetchIds : fetchV15(e)
    \/ \E e \in FetchIds : cachePutV15(e)
    \/ \E e \in FetchIds : fetchListenerV23(e)
    \/ \E e \in FetchIds : navigateFetchV23(e)
    \/ \E e \in FetchIds : navigateFallbackV23(e)
    \/ \E e \in FetchIds : cachesMatchV23(e)
    \/ \E e \in FetchIds : revalidateV23(e)
    \/ \E e \in FetchIds : cachePutV23(e)

SpecProxy == InitProxy /\ [][NextProxy]_vars

\* ============================================================== claims

\* The server call of flush f failed: a non-2xx answer, or fetch threw.
ServerFailed(f) == flush[f].resp \in {"non2xx", "throw"}

\* The flush failed: its server call failed or one of its store accesses did.
Failed(f) == ServerFailed(f) \/ flush[f].err # "none"

\* The flush told its caller that it failed: triggerManualSync returned false;
\* sendQueueToServer of static/offline.js, which returns no value, rejected.
ReportsFailure(f) ==
    IF variant = "v7" THEN flush[f].result = "false" ELSE flush[f].settled = "rejected"

\* The acknowledged requests that carried record k of store s.
AckedWith(s, k) ==
    {q \in UNION {{<<f, j>> : j \in 1..Len(requests[f])} : f \in FlushIds} :
        /\ ResponseOk(requests[q[1]][q[2]].status)
        /\ k \in requests[q[1]][q[2]].keys[s]}

KeysIn(recs) == {recs[k].id : k \in 1..Len(recs)}

\* C1: a flush whose server call failed (non-2xx, or fetch threw) reports
\* failure and has changed no collection: it cleared nothing and has no clear
\* under way.
C1_FailedFlushReportsFailureAndKeepsStore ==
    \A f \in FlushIds :
        ServerFailed(f) =>
            /\ ReportsFailure(f)
            /\ flush[f].cleared = {}
            /\ flush[f].pend = {}

\* C2: a record that has left the outbox (its key was generated and it is no
\* longer in its collection) was carried by a request the server answered 2xx.
C2_RemovedOnlyIfAcknowledged ==
    \A s \in Stores : \A k \in 1..keyGen[s] :
        k \notin KeysIn(store[s]) => AckedWith(s, k) # {}

\* A flush is between its first store read and its last clear.
InFlight(f) == flush[f].pc \in {"read", "fetch", "clear"} \/ flush[f].pend # {}

\* C3: at most one flush is in flight at any time.
C3_AtMostOneFlushInFlight ==
    Cardinality({f \in FlushIds : InFlight(f)}) <= 1

\* C4: as long as no store access has failed, each record is carried by at
\* most one request that the server acknowledged with 2xx.
C4_AcknowledgedAtMostOnce ==
    (\A f \in FlushIds : flush[f].err = "none") =>
        \A s \in Stores : \A k \in 1..keyGen[s] : Cardinality(AckedWith(s, k)) <= 1

\* C5: the step in which triggerManualSync returns after its clears either
\* reports a failed clear, or returns true having cleared all four
\* collections; and when no writer has committed into a collection since the
\* flush read it, all four collections are empty at that moment.
C5_SuccessClearsAllStores ==
    [][\A f \in FlushIds :
          (variant = "v7" /\ flush[f].pc = "clear" /\ flush'[f].pc = "post") =>
              \/ flush'[f].err = "clear" /\ flush'[f].result = "false"
              \/ /\ flush'[f].result = "true"
                 /\ flush[f].resp = "2xx"
                 /\ flush'[f].cleared = Stores
                 /\ (\A s \in Stores : keyGen[s] = flush[f].seen[s])
                        => \A s \in Stores : store'[s] = <<>>]_vars

\* A successful flush of the v7 worker has returned true after a 2xx answer
\* and the outbox is empty.
C5_Witness ==
    \E f \in FlushIds :
        /\ variant = "v7"
        /\ flush[f].result = "true"
        /\ flush[f].resp = "2xx"
        /\ flush[f].cleared = Stores
        /\ \A s \in Stores : store[s] = <<>>

\* The flush succeeded: it is over, its server call was answered 2xx and no
\* store access of it failed.
Acknowledged(f) ==
    /\ flush[f].pc = "done"
    /\ flush[f].resp = "2xx"
    /\ flush[f].err = "none"
    /\ flush[f].pend = {}

\* C6: when a flush that succeeded is over, every open window client has
\* received exactly one SYNC_COMPLETED message of that flush.
C6_EveryWindowClientNotifiedOnce ==
    \A f \in FlushIds :
        Acknowledged(f) => \A c \in Clients : posted[c][f] = 1

\* C7: a SYNC_COMPLETED message is posted only for a flush that did not fail.
C7_MessageOnlyAfterSuccess ==
    \A f \in FlushIds : \A c \in Clients :
        posted[c][f] > 0 => ~Failed(f)

\* C8: the promise of sendQueueToServer rejects when the flush failed: it is
\* resolved only for a flush that did not fail.
C8_FailedFlushRejects ==
    \A f \in FlushIds :
        flush[f].settled = "resolved" => ~Failed(f)

\* The order in which the deployed flush reads the stores.
ReadOrderOf(v) == IF v = "v7" THEN StoreOrder ELSE StoreOrderV1

\* Flush f is about to get the answer to its last getAll.
AtLastRead(f) ==
    flush[f].pc = "read" /\ flush[f].i = Len(ReadOrderOf(variant))

\* What flush f will have read from store s once its last getAll succeeds now.
ReadNow(f, s) ==
    IF s = ReadOrderOf(variant)[flush[f].i] THEN store[s] ELSE flush[f].reads[s]

\* C9: a flush that finds every collection empty returns at once with
\* success, sends no request and changes no collection; and a flush that has
\* returned without a server call has sent nothing and cleared nothing.
C9_EmptyFlushNoNetworkSuccess ==
    [][\A f \in FlushIds :
          /\ ( /\ AtLastRead(f)
               /\ flush'[f] # flush[f]
               /\ flush'[f].err = "none"
               /\ \A s \in Stores : ReadNow(f, s) = <<>> ) =>
                  /\ flush'[f].pc \in {"post", "done"}
                  /\ flush'[f].settled = "resolved"
                  /\ variant = "v7" => flush'[f].result = "true"
                  /\ requests'[f] = <<>>
                  /\ store' = store
          /\ (flush'[f].pc \in {"post", "done"} /\ flush'[f].resp = "none") =>
                  /\ requests'[f] = <<>>
                  /\ flush'[f].cleared = {}
                  /\ flush'[f].pend = {}]_vars

\* A flush that found an empty outbox is over: it succeeded without a request.
C9_Witness ==
    \E f \in FlushIds :
        /\ flush[f].pc = "done"
        /\ flush[f].settled = "resolved"
        /\ flush[f].err = "none"
        /\ flush[f].resp = "none"
        /\ requests[f] = <<>>
        /\ TotalWrites = 0

\* C10: a v7 flush that has read at least one record goes on to the server
\* call; the call appends exactly one request, whose body has the four arrays
\* new_tasks, scratchpad_tasks, new_templates and completed_tasks holding
\* every record read (the scratchpad batches as their tasks); and no other
\* step of the flush sends a request.
C10_OnePostWithFourArrays ==
    [][\A f \in FlushIds : variant = "v7" =>
          /\ ( /\ AtLastRead(f)
               /\ flush'[f] # flush[f]
               /\ flush'[f].err = "none"
               /\ \E s \in Stores : ReadNow(f, s) # <<>> ) =>
                  flush'[f].pc = "fetch" /\ requests'[f] = <<>>
          /\ (flush[f].pc = "fetch" /\ flush'[f] # flush[f]) =>
                  /\ Len(requests'[f]) = 1
                  /\ LET body == requests'[f][1].body
                         rd   == flush[f].reads
                     IN  /\ DOMAIN body = {"new_tasks", "scratchpad_tasks",
                                           "new_templates", "completed_tasks"}
                         /\ body.new_tasks = rd[NEW_TASK_STORE]
                         /\ body.new_templates = rd[NEW_TEMPLATE_STORE]
                         /\ body.completed_tasks = rd[COMPLETED_TASK_STORE]
                         /\ \A b \in 1..Len(rd[SCRATCHPAD_STORE]) :
                              \A k \in 1..Len(rd[SCRATCHPAD_STORE][b].tasks) :
                                 \E n \in 1..Len(body.scratchpad_tasks) :
                                    body.scratchpad_tasks[n] = rd[SCRATCHPAD_STORE][b].tasks[k]
          /\ flush[f].pc # "fetch" => requests'[f] = requests[f]]_vars

\* A v7 flush has posted a request that carries a completion toggle.
C10_Witness ==
    \E f \in FlushIds :
        /\ variant = "v7"
        /\ Len(requests[f]) = 1
        /\ requests[f][1].body.completed_tasks # <<>>
        /\ requests[f][1].body.scratchpad_tasks # <<>>

\* The number of tasks in the first n of the batches.
RECURSIVE TasksBefore(_, _)
TasksBefore(batches, n) ==
    IF n = 0 THEN 0 ELSE TasksBefore(batches, n - 1) + Len(batches[n].tasks)

\* C11: the scratchpad_tasks array of the request a flush sends is the
\* concatenation of the tasks lists of the stored scratchpad batches in stored
\* order: it has as many elements as the batches have tasks, and task k of
\* batch b stands at position (tasks of the batches before b) + k, as the task
\* itself, without the batch, its identifier or its timestamp.
C11_ScratchpadTasksAreConcatenation ==
    [][\A f \in FlushIds :
          (flush[f].pc = "fetch" /\ flush'[f] # flush[f]) =>
              LET sent    == requests'[f][Len(requests'[f])].body.scratchpad_tasks
                  batches == store[SCRATCHPAD_STORE]
              IN  /\ Len(sent) = TasksBefore(batches, Len(batches))
                  /\ \A b \in 1..Len(batches) : \A k \in 1..Len(batches[b].tasks) :
                        sent[TasksBefore(batches, b - 1) + k] = batches[b].tasks[k]]_vars

\* The batches {tasks: [A, B]} and {tasks: [C]} were stored, in that order,
\* and a flush has sent [A, B, C].
C11_Witness ==
    \E f \in FlushIds :
        /\ Len(requests[f]) = 1
        /\ requests[f][1].keys[SCRATCHPAD_STORE] = {1, 2}
        /\ requests[f][1].body.scratchpad_tasks = <<"A", "B", "C">>

\* C17: the step in which a flush clears a collection leaves that collection
\* empty, so that a read of it returns nothing, and leaves the records of
\* every other collection as they were.
C17_ClearEmptiesOneStoreOnly ==
    [][\A f \in FlushIds : \A s \in flush'[f].cleared \ flush[f].cleared :
          /\ store'[s] = <<>>
          /\ \A t \in Stores \ {s} : store'[t] = store[t]]_vars

\* The v7 flush has cleared the first collection, which held records, and
\* the three sibling collections still hold theirs.
C17_Witness ==
    \E f \in FlushIds :
        /\ variant = "v7"
        /\ flush[f].cleared = {NEW_TASK_STORE}
        /\ flush[f].seen[NEW_TASK_STORE] > 0
        /\ store[NEW_TASK_STORE] = <<>>
        /\ \A t \in Stores \ {NEW_TASK_STORE} : store[t] # <<>>

\* The record writer w committed is in its collection.
Queued(w) ==
    /\ writer[w].tx = "committed"
    /\ writer[w].key \in KeysIn(store[writer[w].s])

\* C12: a writer whose promise has resolved has committed its transaction,
\* and its record is in the collection, also after the page was closed.
C12_ResolvedOnlyAfterCommit ==
    \A w \in WriterIds :
        writer[w].settled = "resolved" => Queued(w)

\* C13: a writer hit by a storage error (the open failed, the add failed, the
\* transaction was aborted) has rejected with that very error, and has put no
\* record into the collection.
C13_StorageErrorRejectsUnchanged ==
    \A w \in WriterIds :
        writer[w].fault # "none" =>
            /\ writer[w].settled = "rejected"
            /\ writer[w].value = writer[w].fault
            /\ writer[w].tx # "committed"

\* The sync registration of writer w has been requested (whether the
\* registrar accepted it or not).
RegistrationRequested(w) == writer[w].reg \in {"registered", "failed"}

\* C14: a sync registration is requested only for a writer whose transaction
\* has committed.
C14_RegistrationOnlyAfterCommit ==
    \A w \in WriterIds :
        RegistrationRequested(w) => writer[w].tx = "committed"

\* C15: on a platform without service workers or without SyncManager,
\* registerBackgroundSync does nothing: no registration is requested or
\* waited for, the call makes no writer fail, and every record a writer
\* committed is still in its collection.
C15_NoSupportNoRegistration ==
    ("serviceWorker" \notin support \/ "SyncManager" \notin support) =>
        \A w \in WriterIds :
            /\ writer[w].reg \in {"none", "skipped"}
            /\ writer[w].fault = "none" => writer[w].settled # "rejected"
            /\ writer[w].tx = "committed" => Queued(w)

\* A writer has queued a record on a platform with service workers and
\* without Background Sync: nothing was registered, the record is there.
C15_Witness ==
    /\ support = {"serviceWorker"}
    /\ \E w \in WriterIds :
          /\ writer[w].by = "v7"
          /\ writer[w].settled = "resolved"
          /\ writer[w].reg = "skipped"
          /\ Queued(w)

\* The calls of the 新しいフォルダー writers for collection s that succeeded.
Succeeded(s) ==
    {w \in WriterIds :
        writer[w].by = "v7" /\ writer[w].s = s /\ writer[w].settled = "resolved"}

\* C16: for each of the four collections, the writer calls that succeeded
\* have put one record each into it, under pairwise distinct identifiers;
\* the identifiers of the collection are pairwise distinct; and when the
\* N successful calls are all that was committed into it, it holds exactly
\* N records.
C16_NWritesGiveNDistinctRecords ==
    \A s \in Stores :
        /\ \A w \in Succeeded(s) : writer[w].key \in KeysIn(store[s])
        /\ \A v, w \in Succeeded(s) : v # w => writer[v].key # writer[w].key
        /\ \A i, j \in 1..Len(store[s]) : i # j => store[s][i].id # store[s][j].id
        /\ Succeeded(s) = {w \in WriterIds : writer[w].s = s /\ writer[w].tx = "committed"}
              => Len(store[s]) = Cardinality(Succeeded(s))

\* Two calls for one collection have succeeded, the later call first, and
\* the collection holds two records.
C16_Witness ==
    \E s \in Stores :
        /\ Succeeded(s) = {1, 2}
        /\ writer[1].key = 2
        /\ writer[2].key = 1
        /\ Len(store[s]) = 2

\* An indexedDB.open request of the page succeeds in this step.
OpenSucceeds == \E w \in WriterIds : writer[w].pc = "open" /\ writer'[w].pc = "tx"

\* C18: an open at a higher version than the one on disk creates exactly the
\* object stores of the new version that are missing, and leaves the records
\* and the key generator of every store that existed as they were; an open
\* that finds all its stores creates none, deletes none and changes no record.
C18_UpgradeIsAdditive ==
    [][OpenSucceeds =>
          /\ schema'.names = schema.names \cup ObjectStoresOf(variant)
          /\ \A s \in schema.names : store'[s] = store[s]
          /\ \A s \in schema'.names \ schema.names : store'[s] = <<>>
          /\ keyGen' = keyGen
          /\ ObjectStoresOf(variant) \subseteq schema.names =>
                schema'.names = schema.names /\ store' = store]_vars

\* The database created by static/offline.js, holding a record, has been
\* opened by its successor: it is at version 7 with the four stores, and the
\* record is still there.
C18_Witness ==
    /\ variant = "v7"
    /\ schema = DatabaseOf("v7")
    /\ \E w \in WriterIds :
          /\ writer[w].by = "v1"
          /\ Queued(w)
    /\ \E w \in WriterIds : writer[w].by = "v7" /\ writer[w].req = "succeeded"

\* C19: in one page context at most one indexedDB.open request is pending or
\* has succeeded: a caller that finds one under way shares it.
C19_OneOpenRequestPerContext ==
    Cardinality({w \in WriterIds : writer[w].req \in {"pending", "succeeded"}}) <= 1

\* The responses the cache holds.
Cached == {caches[n][u] : n \in DOMAIN caches, u \in Urls}

\* C20: a request that is not a GET is never found in the cache, is answered
\* with nothing but what the network gave to it (its response, or a network
\* error when the fetch failed), and its response is never in the cache.
C20_NonGetGoesToNetwork ==
    \A e \in FetchIds :
        LET ev == fetchEvent[e]
        IN  (ev.pc # "idle" /\ ev.req.method # "GET") =>
                /\ ev.cached \in {NoResponse, Undefined}
                /\ ev.answer \in NetworkResponses(e) \cup {NoResponse, Undefined, NetworkError(e)}
                /\ ev.answer \in NetworkResponses(e) => ev.answer = ev.net
                /\ ev.net \in NetworkResponses(e) => ev.answer \in {NoResponse, ev.net}
                /\ ev.answer = Undefined => ev.net = NetworkError(e)
                /\ NetworkResponses(e) \cap Cached = {}

\* The handler of 新しいフォルダー/sw.js has fetched a POST, tried to put its
\* response into the cache, and the page has the network's response.
C20_Witness ==
    \E e \in FetchIds :
        /\ sw = "sw_v23"
        /\ fetchEvent[e].req.method = "POST"
        /\ fetchEvent[e].pc = "done"
        /\ fetchEvent[e].put = "TypeError"
        /\ fetchEvent[e].net \in NetworkResponses(e)
        /\ fetchEvent[e].answer = fetchEvent[e].net

\* C21: no cache of the registry ever holds an entry for an API path or an
\* authentication path, and a request to such a path that has been answered
\* was answered by the network (with its response to that very request, or
\* with a network error).
C21_ApiAndAuthNeverInSnapshot ==
    /\ \A n \in DOMAIN caches : \A u \in ApiOrAuth : caches[n][u] = NoResponse
    /\ \A e \in FetchIds :
          (fetchEvent[e].pc = "done" /\ fetchEvent[e].req.url \in ApiOrAuth) =>
              fetchEvent[e].answer \in NetworkOutcomes(e)

\* The workers whose fetch listener serves static assets cache first, and
\* the request for a static asset.
CacheFirstWorkers == {"sw_v10", "sw_v15"}
IsStaticAsset(req) == req.method = "GET" /\ req.url = "/static/js/index.js"

\* C22: for the GET of a static asset under src/sw.js or part_005, the cache
\* lookup answers with the entry, without a network call, whenever the cache
\* has one; without an entry the request is fetched from the network, the
\* page gets the network's answer, a successful response is put into the
\* cache, and the put leaves that response as the entry of the current cache.
C22_StaticAssetCachedOnFirstFetch ==
    [][\A e \in FetchIds :
          LET ev    == fetchEvent[e]
              after == fetchEvent'[e]
              entry == caches[CacheNameOf(sw)][ev.req.url]
          IN  (sw \in CacheFirstWorkers /\ IsStaticAsset(ev.req)) =>
                /\ (ev.pc = "match" /\ after.pc # "match") =>
                      IF entry = NoResponse
                      THEN after.pc = "fetch" /\ after.answer = NoResponse
                      ELSE after.pc = "done" /\ after.answer = entry /\ after.net = NoResponse
                /\ (ev.pc = "fetch" /\ after.pc # "fetch") =>
                      /\ after.net \in NetworkOutcomes(e)
                      /\ after.answer = after.net
                      /\ Ok(after.net) => after.pc = "put"
                /\ (ev.pc = "put" /\ after.pc = "done") =>
                      /\ caches'[CacheNameOf(sw)][ev.req.url] = ev.net
                      /\ after.put = "stored"]_vars

\* The first request for the script found no entry, fetched it and stored
\* the response; the second request got that response without the network.
C22_Witness ==
    /\ sw \in CacheFirstWorkers
    /\ IsStaticAsset(fetchEvent[1].req)
    /\ fetchEvent[1].cached = Undefined
    /\ Ok(fetchEvent[1].net)
    /\ fetchEvent[1].put = "stored"
    /\ IsStaticAsset(fetchEvent[2].req)
    /\ fetchEvent[2].pc = "done"
    /\ fetchEvent[2].answer = fetchEvent[1].net
    /\ fetchEvent[2].net = NoResponse

\* The GET of a page: neither a static asset nor an API or authentication
\* path.
IsPageRequest(req) == req.method = "GET" /\ req.url = "/todo"

\* C23: a page request for which the handler found a cache entry has been
\* answered with that entry, and a network fetch was issued for it whose
\* successful response was put into the cache.
C23_StaleWhileRevalidate ==
    \A e \in FetchIds :
        LET ev == fetchEvent[e]
        IN  (ev.pc = "done" /\ IsPageRequest(ev.req) /\ ev.cached \notin {NoResponse, Undefined}) =>
                /\ ev.answer = ev.cached
                /\ ev.net \in NetworkOutcomes(e)
                /\ Ok(ev.net) => ev.put = "stored"

\* C24: once the activate handler has completed, the registry holds the
\* cache named CACHE_NAME and no other, and the handler has deleted none but
\* caches of other names.
C24_ActivateLeavesCurrentCacheOnly ==
    lifecycle.phase = "activated" =>
        /\ DOMAIN caches = {CacheNameOf(sw)}
        /\ CacheNameOf(sw) \notin lifecycle.deleted

\* A worker has been activated in a registry that held the caches of two
\* predecessors: both are deleted, its own cache is there with what the
\* install stored.
C24_Witness ==
    /\ lifecycle.phase = "activated"
    /\ Cardinality(lifecycle.deleted) = 2
    /\ DOMAIN caches = {CacheNameOf(sw)}
    /\ caches[CacheNameOf(sw)]["/login"] = Installed

\* C25: when the install handler has finished, the install has succeeded
\* (the worker was not discarded), and every shell resource whose own fetch
\* did not fail has been stored in the cache named CACHE_NAME.
C25_InstallIsBestEffort ==
    lifecycle.phase \notin {"parsed", "installing"} =>
        /\ lifecycle.phase # "redundant"
        /\ \A u \in ManifestOf(sw) :
              lifecycle.adds[u] # "failed" =>
                  /\ lifecycle.adds[u] = "stored"
                  /\ caches[CacheNameOf(sw)][u] # NoResponse

\* C26: a request that has been answered was answered with a response (of
\* the network or of the cache) or with a network error, never with the
\* value undefined.
C26_NeverAnsweredWithUndefined ==
    \A e \in FetchIds :
        fetchEvent[e].pc = "done" =>
            fetchEvent[e].answer \notin {Undefined, NoResponse}

\* Flush f has posted SYNC_COMPLETED to a client.
HasPosted(f) == \E c \in Clients : posted[c][f] > 0

\* C30: when a flush whose request was acknowledged, and none of whose store
\* accesses has failed, has posted SYNC_COMPLETED, it has cleared every
\* collection of its outbox, and no record its request carried is in the
\* outbox.
C30_MessageOnlyAfterClears ==
    \A f \in FlushIds :
        (HasPosted(f) /\ flush[f].resp = "2xx" /\ flush[f].err = "none") =>
            /\ flush[f].cleared = ObjectStoresOf(variant)
            /\ \A s \in Stores :
                  \A k \in 1..Len(requests[f]) :
                      requests[f][k].keys[s] \cap KeysIn(store[s]) = {}

\* The worker has been terminated during a flush.
WasTerminated == \E f \in FlushIds : flush[f].pc = "dead"

\* C27: after the worker was terminated during a flush of
\* 新しいフォルダー/offline.js, every record that was queued (its key was
\* generated) is in its collection or was carried by a request the server
\* answered 2xx.
C27_TerminationLosesNoRecord ==
    (variant = "v7" /\ WasTerminated) =>
        \A s \in Stores : \A k \in 1..keyGen[s] :
            k \in KeysIn(store[s]) \/ AckedWith(s, k) # {}

\* No flush is left to start.
NoFlushLeft == \A f \in FlushIds : flush[f].pc # "idle"

\* C28: under 新しいフォルダー/offline.js a record that is in the outbox is
\* eventually carried by a request the server answers 2xx, unless it is
\* still in the outbox when the last flush has been started.
C28_QueuedRecordEventuallyDelivered ==
    \A s \in Stores : \A k \in 1..MaxWrites :
        (variant = "v7" /\ k \in KeysIn(store[s]))
            ~> (AckedWith(s, k) # {} \/ (k \in KeysIn(store[s]) /\ NoFlushLeft))

\* C29: the promise of every flush that was started eventually settles.
C29_FlushEventuallySettles ==
    \A f \in FlushIds :
        (flush[f].pc # "idle") ~> (flush[f].settled # "pending")

\* C31: every entry of every cache of the registry holds a successful
\* response: what the install stored, or a network response of status 200.
C31_SnapshotHoldsSuccessfulResponsesOnly ==
    \A n \in DOMAIN caches : \A u \in Urls :
        caches[n][u] # NoResponse => Ok(caches[n][u])

\* A request that the handler serves stale while revalidating: any request
\* but a navigation under 新しいフォルダー/sw.js, a GET that is neither a
\* navigation nor a static asset under part_005.
IsRevalidated(req) ==
    \/ sw = "sw_v23" /\ req.mode # "navigate"
    \/ sw = "sw_v10" /\ req.method = "GET" /\ req.mode # "navigate" /\ ~IsStaticV10(req)

\* C37: when the lookup of a stale-while-revalidate request found an entry
\* and the network fetch then fails, the event is over with the entry as its
\* answer, no put is issued, and the registry of caches is left as it was.
C37_FailedRevalidationIsSwallowed ==
    [][\A e \in FetchIds :
          LET ev    == fetchEvent[e]
              after == fetchEvent'[e]
          IN  (/\ IsRevalidated(ev.req)
               /\ ev.pc = "fetch"
               /\ ev.cached \notin {NoResponse, Undefined}
               /\ after.net = NetworkError(e)) =>
                  /\ after.pc = "done"
                  /\ after.answer = ev.cached
                  /\ after.put = "none"
                  /\ caches' = caches]_vars

\* A revalidated request found an entry, its fetch failed, and the page got
\* the entry, which is still what the cache holds.
C37_Witness ==
    \E e \in FetchIds :
        /\ IsRevalidated(fetchEvent[e].req)
        /\ fetchEvent[e].pc = "done"
        /\ fetchEvent[e].cached \notin {NoResponse, Undefined}
        /\ fetchEvent[e].net = NetworkError(e)
        /\ fetchEvent[e].answer = fetchEvent[e].cached
        /\ caches[CacheNameOf(sw)][fetchEvent[e].req.url] = fetchEvent[e].cached

\* C38: no step of the install, activate and fetch handlers of a worker
\* creates or changes a cache of another name than its CACHE_NAME (such a
\* cache is left as it is, or deleted), and from the activation on the
\* registry holds no cache of another name: at most one cache.
C38_WritesOnlyToCurrentCache ==
    [][/\ \A n \in DOMAIN caches' :
             n # CacheNameOf(sw) => (n \in DOMAIN caches /\ caches'[n] = caches[n])
       /\ lifecycle.phase = "activated" =>
             (DOMAIN caches' \subseteq {CacheNameOf(sw)} /\ Cardinality(DOMAIN caches') <= 1)
      ]_vars

\* A worker installed next to the caches of two predecessors, deleted them
\* at activation, and has since stored a response of the network in its own
\* cache, the only one of the registry.
C38_Witness ==
    /\ lifecycle.phase = "activated"
    /\ Cardinality(lifecycle.deleted) = 2
    /\ \E e \in FetchIds :
          /\ fetchEvent[e].put = "stored"
          /\ caches[CacheNameOf(sw)][fetchEvent[e].req.url] = fetchEvent[e].net
    /\ Cardinality(DOMAIN caches) = 1

\* Sequence a is the beginning of sequence b.
IsPrefix(a, b) == Len(a) <= Len(b) /\ SubSeq(b, 1, Len(a)) = a

\* Flush g is the next flush after flush f: the first that was started
\* after the promise of f had settled.
NextAfter(f, g) ==
    /\ f \in flush[g].after
    /\ \A h \in FlushIds : f \in flush[h].after => h >= g

\* C32: when the server call of a flush of 新しいフォルダー/offline.js failed
\* and the next flush has sent its request (no third flush having cleared a
\* store meanwhile), each of the four groups of that request begins with the
\* records of the failed request's group, the request carries every record
\* the failed one carried, and it carries every record queued in a store up
\* to its read of the store: the keys 1..n without a gap.
C32_NextFlushRetriesWholeBatch ==
    \A f, g \in FlushIds :
        (/\ variant = "v7"
         /\ NextAfter(f, g)
         /\ ServerFailed(f)
         /\ requests[f] # <<>>
         /\ requests[g] # <<>>
         /\ \A h \in FlushIds \ {f, g} : flush[h].cleared = {}) =>
            LET a == requests[f][1]
                b == requests[g][1]
            IN  /\ IsPrefix(a.body.new_tasks, b.body.new_tasks)
                /\ IsPrefix(a.body.scratchpad_tasks, b.body.scratchpad_tasks)
                /\ IsPrefix(a.body.new_templates, b.body.new_templates)
                /\ IsPrefix(a.body.completed_tasks, b.body.completed_tasks)
                /\ KeysIn(b.body.new_tasks) = b.keys[NEW_TASK_STORE]
                /\ KeysIn(b.body.new_templates) = b.keys[NEW_TEMPLATE_STORE]
                /\ KeysIn(b.body.completed_tasks) = b.keys[COMPLETED_TASK_STORE]
                /\ \A s \in Stores :
                      /\ a.keys[s] \subseteq b.keys[s]
                      /\ b.keys[s] = 1..Cardinality(b.keys[s])

\* The server call of flush 1 failed; flush 2, started after it, has sent a
\* request that carries the record of the failed request and a record
\* queued since.
C32_Witness ==
    /\ variant = "v7"
    /\ NextAfter(1, 2)
    /\ ServerFailed(1)
    /\ requests[1] # <<>>
    /\ requests[2] # <<>>
    /\ \E s \in Stores :
          /\ requests[1][1].keys[s] = {1}
          /\ requests[2][1].keys[s] = {1, 2}

\* C34: a step of a listener starts a flush only for a sync event of tag
\* 'background-sync' or a message of type 'SYNC_NOW'; a step that handles a
\* sync event of another tag, or a message of another type or without data,
\* starts no flush, sends no request and leaves the object stores unchanged.
C34_FlushOnlyOnSyncTagOrSyncNow ==
    [][\A f \in FlushIds :
          LET fl    == flush[f]
              after == flush'[f]
          IN  /\ (fl.pc = "idle" /\ after.pc # "idle") =>
                    \/ after.event = "sync" /\ after.tag = "background-sync"
                    \/ after.event = "message" /\ after.tag = "SYNC_NOW" /\ variant = "v7"
              /\ (fl.pc = "idle" /\ after.tag \notin {fl.tag, "background-sync", "SYNC_NOW"}) =>
                    /\ after.pc = "idle"
                    /\ after.event = "none"
                    /\ requests' = requests
                    /\ store' = store]_vars

\* With records in the outbox, a sync event of another tag (or a message of
\* another type) has been ignored: no flush was started, no request sent.
C34_Witness ==
    /\ flush[1].pc = "idle"
    /\ flush[1].tag \in {"other-tag", "OTHER", "no-data"}
    /\ \E s \in Stores : store[s] # <<>>
    /\ requests[1] = <<>>

\* C33: in every step and for every store, the key generator does not go
\* back; a record of the store after the step is a record that was there
\* before, at the same place and with the same key, or it is new and its key
\* is greater than every key the store has assigned before; and the keys of
\* the records of a store increase in the order of insertion.
C33_KeysIncreaseAndAreNeverReused ==
    [][\A s \in Stores :
          /\ keyGen'[s] >= keyGen[s]
          /\ \A i \in 1..Len(store'[s]) :
                \/ i <= Len(store[s]) /\ store[s][i] = store'[s][i]
                \/ store'[s][i].id > keyGen[s] /\ store'[s][i].id <= keyGen'[s]
          /\ \A i, j \in 1..Len(store'[s]) :
                i < j => store'[s][i].id < store'[s][j].id]_vars

\* A store was cleared by a flush the server had acknowledged, and the
\* record inserted after the clear has the key 2, not the key 1 of the
\* record that was cleared.
C33_Witness ==
    \E s \in Stores, f \in FlushIds :
        /\ s \in flush[f].cleared
        /\ ResponseOk(flush[f].resp)
        /\ 1 \in requests[f][1].keys[s]
        /\ Len(store[s]) = 1
        /\ store[s][1].id = 2

\* C39: for a writer whose sync registration failed, a committed transaction
\* means that the writer's promise is resolved and that the record is in
\* its store under the key it was given; and if the promise is rejected, it
\* is rejected because of a storage error and with that error's value,
\* never because of the registration.
C39_RegistrationFailureLeavesWriteAlone ==
    \A w \in WriterIds :
        writer[w].reg = "failed" =>
            /\ writer[w].tx = "committed" =>
                  /\ writer[w].settled = "resolved"
                  /\ writer[w].key \in KeysIn(store[writer[w].s])
            /\ writer[w].settled = "rejected" =>
                  /\ writer[w].fault \in {"OpenError", "AddError"}
                  /\ writer[w].value \in {"OpenError", "Database error: undefined", "null"}

\* The registration of a writer failed; its transaction has committed, its
\* promise is resolved and its record is in the store.
C39_Witness ==
    \E w \in WriterIds :
        /\ writer[w].reg = "failed"
        /\ writer[w].tx = "committed"
        /\ writer[w].settled = "resolved"
        /\ writer[w].key \in KeysIn(store[writer[w].s])

\* C35: a call of addLocalTask or addToSyncQueue made with navigator.onLine
\* true has returned false, has opened nothing, inserted nothing and
\* requested no registration.  A call made with navigator.onLine false has
\* called registerBackgroundSync when it has returned true; once it is over
\* without an open error it has returned true; and once it is over after
\* returning true its record is in the matching store.  Every store holds
\* one record per committed transaction.
C35_QueuesOnlyWhenOffline ==
    /\ \A w \in WriterIds :
          writer[w].by = "v1" =>
              /\ writer[w].onLine = "true" =>
                    /\ writer[w].returned = "false"
                    /\ writer[w].req = "none"
                    /\ writer[w].tx = "none"
                    /\ writer[w].reg = "none"
              /\ writer[w].onLine = "false" =>
                    /\ writer[w].returned = "true" => writer[w].reg # "none"
                    /\ (writer[w].pc = "done" /\ writer[w].fault # "OpenError") =>
                          writer[w].returned = "true"
                    /\ (writer[w].pc = "done" /\ writer[w].returned = "true") => Queued(w)
    /\ \A s \in Stores :
          Len(store[s]) = Cardinality({w \in WriterIds : writer[w].s = s /\ writer[w].tx = "committed"})

\* The save handler that made call w read the page as offline.
SavedOffline(wr) ==
    /\ wr.page # "none"
    /\ wr.offlineMode = "true" \/ wr.onLine = "false"

\* C36: for a new task or template saved offline on a page that has the
\* writers, after every step: the writer of the matching store was called
\* and the form is not submitted; success is shown only with the writer's
\* promise resolved and its transaction committed; a failure alert is shown
\* only for a rejected promise, with the form left as it is and nothing
\* committed.  And a rejected promise leads to the failure alert.
C36_OfflineSaveQueuesOrReportsFailure ==
    /\ [][\A w \in WriterIds :
          LET after == writer'[w]
          IN  (SavedOffline(after) /\ HasWriter(variant)) =>
                /\ after.by = "v7"
                /\ after.pc # "idle"
                /\ after.s = IF after.page = "edit_task" THEN NEW_TASK_STORE
                                                          ELSE NEW_TEMPLATE_STORE
                /\ after.form # "submitted"
                /\ after.shown \in {"none", "success", "failure"}
                /\ after.shown = "success" =>
                      after.settled = "resolved" /\ after.tx = "committed"
                /\ after.shown = "failure" =>
                      /\ after.settled = "rejected"
                      /\ after.form = "none"
                      /\ after.tx # "committed"
                /\ after.settled = "rejected" => after.shown \in {"none", "failure"}]_vars
    /\ \A w \in WriterIds :
          (SavedOffline(writer[w]) /\ writer[w].settled = "rejected")
              ~> (writer[w].shown = "failure")

\* Both cases have happened on a page read as offline because of
\* navigator.onLine alone: one save was queued and success was shown after
\* the writer resolved, another was rejected by the writer and the failure
\* alert was shown; no form was submitted.
C36_Witness ==
    \E v, w \in WriterIds :
        /\ SavedOffline(writer[v]) /\ writer[v].offlineMode = "false"
        /\ writer[v].shown = "success"
        /\ Queued(v)
        /\ SavedOffline(writer[w])
        /\ writer[w].shown = "failure"
        /\ writer[w].settled = "rejected"
        /\ writer[v].form # "submitted" /\ writer[w].form = "none"

====
